---- MODULE Spec2Model ----
(***************************************************************************)
(* Private-access speedtest: the browser-side TestOrchestrator with its    *)
(* MetricsCalculator, and the download / upload handlers of the backend.   *)
(*                                                                         *)
(* JavaScript runs one task at a time: every action below is one task of   *)
(* the event loop (a timer callback, a socket event, a settled fetch, a UI *)
(* call) together with the promise continuations (microtasks) it triggers. *)
(* Time is abstract: wherever the code compares Date.now() with a deadline *)
(* or a sampling interval, the action takes either branch.                 *)
(***************************************************************************)
EXTENDS Integers, Sequences, FiniteSets

\* ---------------------------------------------------------------- bounds
\* largest maxConcurrency the capabilities descriptor advertises in the model
MaxAdvertised == 1
\* chunks the network carries at most in one run (reads of downloads, POSTs of uploads)
MaxChunks == 2
\* echo probes sent at most in one run
MaxEcho == 1
\* chunks a download of the secure server, which has no byte ceiling, sends at most
MaxSent == 102
\* largest number of bytes one 'data' event of an upload brings, in units of CHUNK_SIZE
MaxData == 50

\* largest maxConcurrency a descriptor carries where discovery is examined alone
MaxWide == 14
\* messages one echo channel receives at most
MaxMessages == 2
\* start() calls of one orchestrator
MaxRuns == 2
\* POSTs one upload stream completes where the upload phase is followed on its own
MaxUploads == 401
\* calls that add to one MetricsCalculator before it is reset
MaxCalls == 3
\* probes accounted for by a MetricsCalculator
MaxProbes == 10
\* RTT samples of a calculator whose summary is followed
MaxRtts == 2

\* ------------------------------------------------------ program constants
DEFAULT_CONCURRENCY == 6
MAX_CONCURRENCY == 12
\* bytes of one upload chunk of the orchestrator, in units of 64 KiB
chunkSize == 1
\* the backend's buffer, the unit of its byte counts (256 KiB)
CHUNK_SIZE == 1
\* 25 MiB, in units of CHUNK_SIZE
MAX_BYTES_PER_STREAM == 100
\* 100 MiB, in units of CHUNK_SIZE
MAX_UPLOAD_SIZE == 400
\* bytes
MAX_WS_MESSAGE_SIZE == 1024
\* MetricsCalculator: this.windowSize and the default of warmupMs, in ms
windowSize == 1000
DefaultWarmupMs == 3000

StreamIds == 1..(IF MaxAdvertised > 2 THEN MaxAdvertised ELSE 2)
EchoSeqs == 0..(MaxEcho - 1)
PhaseOrder == <<"discovery", "warmup", "ramp", "measure-download",
                "measure-upload", "cooldown">>
Terminals == {"complete", "error", "cancelled"}

VARIABLES
    \* TestOrchestrator fields
    phase,            \* this.phase ("null" before the first phase)
    abortController,  \* this.abortController: "null" or "set"
    concurrency,      \* this.concurrency
    capabilities,     \* this.capabilities: null, or the descriptor of the server
    ws,               \* this.ws: "null" or "set" (a reference to the socket)
    echoTimer,        \* this.echoTimer: "null" or "set" (the interval's id)
    echoSeq,          \* this.echoSeq
    pendingEchoes,    \* keys of this.pendingEchoes
    \* MetricsCalculator fields
    throughputSamples, \* bytes of each sample, in order of recording
    rttSamples,        \* one entry per sample: the seq of the probe it came from
    sentEchoes,
    lostEchoes,
    \* the run's objects and tasks outside the orchestrator's fields
    pc,               \* where start() is suspended
    aborted,          \* signal.aborted of the run's AbortController object
    streams,          \* the stream tasks of the current batch
    wsState,          \* the socket object: none/connecting/open/failing/closing/closed
    connectTimer,     \* the 5 s connect timeout of startLatencyTest is armed
    echoInterval,     \* the setInterval of startEchoLoop is armed
    echoTimeouts,     \* seqs whose ECHO_TIMEOUT timer is armed
    parsing,          \* echo responses received, handleEchoResponse suspended on data.text()
    delivered,        \* chunks the network has carried so far
    \* observations
    phaseLog,         \* phases of the phaseChange events, in order
    terminalLog,      \* complete/error/cancelled events, in order
    otherEvents,      \* number of capabilities and metricsUpdate events
    launched,         \* number of runSingle*Stream calls
    wsCreated,        \* number of createWebSocket calls
    timedOut,         \* seqs counted as lost by their timeout callback
    stopCalled,       \* stop() was called while start() had not returned
    runs,             \* per start() call: had an earlier run left samples and counters
    earlier,          \* where an earlier start() call that has not returned waits
    \* a MetricsCalculator on its own
    metrics,          \* the fields of the instance
    summary,          \* the last summary read from it: which, the fields before and after it
    \* the backend (server.js, server-secure.js) serving one request
    variant,          \* "basic" (server.js) or "secure" (server-secure.js)
    request,          \* the request being served: "none", "download" or "upload"
    activeStreamsGauge, \* value of the gauge, per type
    ipConnections,    \* ipConnections.get(ip) || 0 of the caller's address
    bytesServedCalls, \* bytesServedCounter.inc calls, per direction
    bytesSent,        \* of the download closure, in units of CHUNK_SIZE
    scheduled,        \* the next sendChunk: "none", "immediate" (setImmediate) or "drain"
    writableEnded,    \* res.writableEnded
    status,           \* status of the response sent (0: none yet)
    closed,           \* the 'close' event of the request has been emitted
    receivedBytes,    \* of the upload closure, in units of CHUNK_SIZE
    paused,           \* req.pause() was called
    ended,            \* the 'end' event of req has been emitted
    destroyed,        \* req.connection.destroy() was called
    query,            \* req.query.seconds of the download request
    seconds,          \* `seconds` of the download closure
    writableNeedDrain, \* res.write returned false and 'drain' has not been emitted since
    wsConn,           \* the echo channel, seen from the server: none/open/closing/closed
    closeCode,        \* code of the close frame the server sent (0: none)
    wsEchoCounter,    \* value of wsEchoCounter
    received,         \* payloads of the 'message' events, in order
    sent              \* payloads passed to ws.send on an open channel, in order

orchVars == <<phase, abortController, concurrency, capabilities, ws, echoTimer, echoSeq, pendingEchoes>>
metricVars == <<throughputSamples, rttSamples, sentEchoes, lostEchoes>>
taskVars == <<pc, aborted, streams, wsState, connectTimer, echoInterval, echoTimeouts, parsing,
             delivered>>
obsVars == <<phaseLog, terminalLog, otherEvents, launched, wsCreated, timedOut, stopCalled>>
clientVars == <<orchVars, metricVars, taskVars, obsVars>>
dlVars == <<query, seconds, writableNeedDrain>>
echoVars == <<wsConn, closeCode, wsEchoCounter, received, sent>>
srvVars == <<variant, request, activeStreamsGauge, ipConnections, bytesServedCalls, bytesSent,
            scheduled, writableEnded, status, closed, receivedBytes, paused, ended, destroyed,
            dlVars, echoVars>>
runVars == <<runs, earlier, metrics, summary>>
vars == <<clientVars, srvVars, runVars>>

\* ------------------------------------------- numbers (IEEE 754 binary64)
\* The arithmetic of JavaScript numbers: every operation gives the exact result
\* rounded to Precision significant bits, ties to even.
\* A natural number of any size is the sequence of its digits to the base Base,
\* least significant first, the last digit not 0 (<<>> is 0).
Precision == 53
Base == 1024
BaseBits == 10
\* bits a dividend is extended by before a division by an integer below 2^20
DivGuard == 80

Digit(b, k) == IF k <= Len(b) THEN b[k] ELSE 0

RECURSIVE Trim(_)
Trim(b) ==
    IF b = <<>> \/ b[Len(b)] # 0 THEN b ELSE Trim(SubSeq(b, 1, Len(b) - 1))

RECURSIVE BigOf(_)
BigOf(n) == IF n = 0 THEN <<>> ELSE <<n % Base>> \o BigOf(n \div Base)

RECURSIVE NatOf(_)
NatOf(b) == IF b = <<>> THEN 0 ELSE b[1] + Base * NatOf(Tail(b))

RECURSIVE BigAddFrom(_, _, _, _)
BigAddFrom(a, b, k, carry) ==
    IF k > Len(a) /\ k > Len(b)
    THEN (IF carry = 0 THEN <<>> ELSE <<carry>>)
    ELSE LET t == Digit(a, k) + Digit(b, k) + carry
         IN <<t % Base>> \o BigAddFrom(a, b, k + 1, t \div Base)

BigAdd(a, b) == BigAddFrom(a, b, 1, 0)

\* a - b for a >= b
RECURSIVE BigSubFrom(_, _, _, _)
BigSubFrom(a, b, k, borrow) ==
    IF k > Len(a)
    THEN <<>>
    ELSE LET t == Base + Digit(a, k) - Digit(b, k) - borrow
         IN <<t % Base>> \o BigSubFrom(a, b, k + 1, IF t < Base THEN 1 ELSE 0)

BigSub(a, b) == Trim(BigSubFrom(a, b, 1, 0))

RECURSIVE BigLessAt(_, _, _)
BigLessAt(a, b, k) ==
    IF k = 0 THEN FALSE
    ELSE IF a[k] # b[k] THEN a[k] < b[k]
    ELSE BigLessAt(a, b, k - 1)

BigLess(a, b) == IF Len(a) # Len(b) THEN Len(a) < Len(b) ELSE BigLessAt(a, b, Len(a))

\* a * d for one digit d
RECURSIVE BigTimesFrom(_, _, _, _)
BigTimesFrom(a, d, k, carry) ==
    IF k > Len(a)
    THEN (IF carry = 0 THEN <<>> ELSE <<carry>>)
    ELSE LET t == a[k] * d + carry
         IN <<t % Base>> \o BigTimesFrom(a, d, k + 1, t \div Base)

BigTimes(a, d) == Trim(BigTimesFrom(a, d, 1, 0))

ShiftDigits(b, n) == IF b = <<>> THEN b ELSE [i \in 1..n |-> 0] \o b

RECURSIVE BigMulFrom(_, _, _)
BigMulFrom(a, b, k) ==
    IF k > Len(a)
    THEN <<>>
    ELSE BigAdd(ShiftDigits(BigTimes(b, a[k]), k - 1), BigMulFrom(a, b, k + 1))

BigMul(a, b) == BigMulFrom(a, b, 1)

\* a divided by the integer d < 2^20, from digit k down with remainder r so far
RECURSIVE BigDivFrom(_, _, _, _)
BigDivFrom(a, d, k, r) ==
    IF k = 0
    THEN [q |-> <<>>, r |-> r]
    ELSE LET t == Base * r + a[k]
             low == BigDivFrom(a, d, k - 1, t % d)
         IN [q |-> low.q \o <<t \div d>>, r |-> low.r]

BigDiv(a, d) == LET res == BigDivFrom(a, d, Len(a), 0) IN [q |-> Trim(res.q), r |-> res.r]

\* a * 2^n and the integer part of a / 2^n
ShiftLeft(b, n) == ShiftDigits(BigTimes(b, 2 ^ (n % BaseBits)), n \div BaseBits)
ShiftRight(b, n) ==
    IF n \div BaseBits >= Len(b)
    THEN <<>>
    ELSE BigDiv(SubSeq(b, n \div BaseBits + 1, Len(b)), 2 ^ (n % BaseBits)).q

\* number of binary digits, the k-th binary digit, the number of low binary zeros
BitLen(b) ==
    IF b = <<>>
    THEN 0
    ELSE BaseBits * (Len(b) - 1)
         + (CHOOSE k \in 1..BaseBits : 2 ^ (k - 1) <= b[Len(b)] /\ b[Len(b)] < 2 ^ k)
BitAt(b, k) == (Digit(b, (k - 1) \div BaseBits + 1) \div 2 ^ ((k - 1) % BaseBits)) % 2
LowZeros(b) ==
    LET i == CHOOSE i \in 1..Len(b) : b[i] # 0 /\ \A j \in 1..(i - 1) : b[j] = 0
        z == CHOOSE z \in 0..(BaseBits - 1) : b[i] % 2 ^ (z + 1) # 0 /\ b[i] % 2 ^ z = 0
    IN BaseBits * (i - 1) + z

\* A number is (-1)^neg * m * 2^e with m odd, or zero
DZero == [neg |-> FALSE, m |-> <<>>, e |-> 0]

DNorm(neg, big, e) ==
    IF big = <<>>
    THEN DZero
    ELSE [neg |-> neg, m |-> ShiftRight(big, LowZeros(big)), e |-> e + LowZeros(big)]

\* the number nearest to big * 2^e (plus a fraction of its last digit if `more`)
DRound(neg, big, e, more) ==
    IF BitLen(big) <= Precision
    THEN DNorm(neg, big, e)
    ELSE LET cut == BitLen(big) - Precision
             kept == ShiftRight(big, cut)
             half == BitAt(big, cut) = 1
             rest == more \/ LowZeros(big) < cut - 1
             up == half /\ (rest \/ BitAt(kept, 1) = 1)
         IN DNorm(neg, IF up THEN BigAdd(kept, <<1>>) ELSE kept, e + cut)

DInt(n) == DNorm(FALSE, BigOf(n), 0)
DOne == DInt(1)
DNeg(x) == IF x.m = <<>> THEN x ELSE [x EXCEPT !.neg = ~@]

\* x * y
DMul(x, y) == DRound(x.neg # y.neg, BigMul(x.m, y.m), x.e + y.e, FALSE)

\* x + y
DAdd(x, y) ==
    LET e == IF x.e < y.e THEN x.e ELSE y.e
        a == ShiftLeft(x.m, x.e - e)
        b == ShiftLeft(y.m, y.e - e)
    IN IF x.neg = y.neg THEN DRound(x.neg, BigAdd(a, b), e, FALSE)
       ELSE IF BigLess(a, b) THEN DRound(y.neg, BigSub(b, a), e, FALSE)
       ELSE DRound(x.neg, BigSub(a, b), e, FALSE)

\* x - y
DSub(x, y) == DAdd(x, DNeg(y))

\* x / d for an integer d in 1..2^20
DDivInt(x, d) ==
    IF x.m = <<>>
    THEN DZero
    ELSE LET res == BigDiv(ShiftLeft(x.m, DivGuard), d)
         IN DRound(x.neg, res.q, x.e - DivGuard, res.r # 0)

DLess(x, y) == DSub(x, y).neg
DLeq(x, y) == ~DLess(y, x)

\* Math.floor and Math.ceil of a number >= 0, as integers
DFloor(x) ==
    IF x.e >= 0 THEN NatOf(ShiftLeft(x.m, x.e)) ELSE NatOf(ShiftRight(x.m, 0 - x.e))
DCeil(x) == IF x.e >= 0 THEN DFloor(x) ELSE DFloor(x) + 1

\* the largest digit q, built from bit `bit` down on top of acc, with b * q <= r
RECURSIVE QuotientDigit(_, _, _, _)
QuotientDigit(r, b, bit, acc) ==
    IF bit < 0 THEN acc
    ELSE IF BigLess(r, BigTimes(b, acc + 2 ^ bit))
    THEN QuotientDigit(r, b, bit - 1, acc)
    ELSE QuotientDigit(r, b, bit - 1, acc + 2 ^ bit)

\* one step of the long division: the digit a_k joins the remainder of prev
QuotientStep(prev, digit, b) ==
    LET t == Trim(<<digit>> \o prev.r)
        d == QuotientDigit(t, b, BaseBits - 1, 0)
    IN [q |-> <<d>> \o prev.q, r |-> BigSub(t, BigTimes(b, d))]

\* a divided by b # 0: quotient and remainder after the digits from the top down to k
RECURSIVE BigQuotientDownTo(_, _, _)
BigQuotientDownTo(a, b, k) ==
    IF k > Len(a)
    THEN [q |-> <<>>, r |-> <<>>]
    ELSE LET prev == BigQuotientDownTo(a, b, k + 1)
         IN IF prev.r = <<>> /\ a[k] = 0
            THEN [q |-> <<0>> \o prev.q, r |-> <<>>]
            ELSE QuotientStep(prev, a[k], b)

BigQuotient(a, b) ==
    LET res == BigQuotientDownTo(a, b, 1) IN [q |-> Trim(res.q), r |-> res.r]

\* x / y for y # 0: the dividend is extended until the quotient has more than
\* Precision + 1 bits
DDiv(x, y) ==
    IF x.m = <<>>
    THEN DZero
    ELSE LET short == Precision + 2 + BitLen(y.m) - BitLen(x.m)
             guard == IF short > 0 THEN short ELSE 0
             res == BigQuotient(ShiftLeft(x.m, guard), y.m)
         IN DRound(x.neg # y.neg, res.q, x.e - y.e - guard, res.r # <<>>)

\* Math.abs, Math.min and Math.max
DAbs(x) == [x EXCEPT !.neg = FALSE]
DMin(x, y) == IF DLess(y, x) THEN y ELSE x
DMax(x, y) == IF DLess(x, y) THEN y ELSE x

\* Math.round of a number >= 0, as an integer: the integer part of x + 1/2
MathRound(x) ==
    IF x.e >= 0
    THEN NatOf(ShiftLeft(x.m, x.e))
    ELSE NatOf(ShiftRight(BigAdd(x.m, ShiftLeft(<<1>>, 0 - x.e - 1)), 0 - x.e))

\* this.capabilities: null, a descriptor without maxConcurrency, or one with it
NoCapabilities == [null |-> TRUE, has |-> FALSE, maxConcurrency |-> 0]
Descriptor(n) == [null |-> FALSE, has |-> TRUE, maxConcurrency |-> n]
DescriptorWithout == [null |-> FALSE, has |-> FALSE, maxConcurrency |-> 0]

\* a stream task: its position, whether its request carries the abort signal, its
\* locals, and the bytes it has passed to addThroughputSample
NoStream == [pc |-> "none", sig |-> FALSE, bucketBytes |-> 0, totalBytes |-> 0, sampledBytes |-> 0]
NoStreams == [i \in StreamIds |-> NoStream]

\* MetricsCalculator.reset(): the fields of a fresh instance
NewMetricsCalculator ==
    [throughputSamples |-> <<>>,
     rttSamples |-> <<>>,
     jitterEstimate |-> DZero,
     jitterSamples |-> <<>>,
     lostEchoes |-> 0,
     sentEchoes |-> 0,
     lastRtt |-> 0]

\* no summary has been read yet
NoSummary == [calc |-> "none", before |-> NewMetricsCalculator, of |-> NewMetricsCalculator]

\* reset() and the constructor
ClientInit ==
    /\ phase = "null"
    /\ abortController = "null"
    /\ concurrency = DEFAULT_CONCURRENCY
    /\ capabilities = NoCapabilities
    /\ ws = "null"
    /\ echoTimer = "null"
    /\ echoSeq = 0
    /\ pendingEchoes = {}
    /\ throughputSamples = <<>>
    /\ rttSamples = <<>>
    /\ sentEchoes = 0
    /\ lostEchoes = 0
    /\ pc = "idle"
    /\ aborted = FALSE
    /\ streams = NoStreams
    /\ wsState = "none"
    /\ connectTimer = FALSE
    /\ echoInterval = FALSE
    /\ echoTimeouts = {}
    /\ parsing = {}
    /\ delivered = 0
    /\ phaseLog = <<>>
    /\ terminalLog = <<>>
    /\ otherEvents = 0
    /\ launched = 0
    /\ wsCreated = 0
    /\ timedOut = {}
    /\ stopCalled = FALSE
    /\ runs = <<>>
    /\ earlier = "none"

\* the backend once it listens
ServerInit ==
    /\ request = "none"
    /\ activeStreamsGauge = [t \in {"download", "upload"} |-> 0]
    /\ ipConnections = 0
    /\ bytesServedCalls = [t \in {"download", "upload"} |-> 0]
    /\ bytesSent = 0
    /\ scheduled = "none"
    /\ writableEnded = FALSE
    /\ status = 0
    /\ closed = FALSE
    /\ receivedBytes = 0
    /\ paused = FALSE
    /\ ended = FALSE
    /\ destroyed = FALSE
    /\ query = [present |-> FALSE, text |-> <<>>]
    /\ seconds = 0
    /\ writableNeedDrain = FALSE
    /\ wsConn = "none"
    /\ closeCode = 0
    /\ wsEchoCounter = 0
    /\ received = <<>>
    /\ sent = <<>>

Init ==
    /\ ClientInit /\ ServerInit /\ variant = "basic"
    /\ metrics = NewMetricsCalculator /\ summary = NoSummary

\* ------------------------------------------------------------ helpers
Min(a, b) == IF a < b THEN a ELSE b
Max(a, b) == IF a > b THEN a ELSE b

\* ws.close() on the socket object: a connecting socket fails (error event, then
\* close event), an open one closes (close event)
CloseSocket(s) ==
    IF s = "connecting" THEN "failing" ELSE IF s = "open" THEN "closing" ELSE s

\* cleanup() without the loop over this.pendingEchoes and without the clear()
cleanupKeepsPending(s) ==
    /\ wsState' = (IF ws = "set" THEN CloseSocket(s) ELSE s)
    /\ ws' = "null"
    /\ echoInterval' = (IF echoTimer = "set" THEN FALSE ELSE echoInterval)
    /\ echoTimer' = "null"
    /\ UNCHANGED <<echoTimeouts, pendingEchoes>>
    /\ aborted' = (aborted \/ abortController = "set")
    /\ abortController' = "null"

\* cleanup(), given the socket's state when it is called
cleanup(s) ==
    /\ wsState' = (IF ws = "set" THEN CloseSocket(s) ELSE s)
    /\ ws' = "null"
    /\ echoInterval' = (IF echoTimer = "set" THEN FALSE ELSE echoInterval)
    /\ echoTimer' = "null"
    /\ echoTimeouts' = echoTimeouts \ pendingEchoes
    /\ pendingEchoes' = {}
    /\ aborted' = (aborted \/ abortController = "set")
    /\ abortController' = "null"

\* the catch and finally blocks of start(): one terminal event, then cleanup()
Finish(event, s) ==
    /\ terminalLog' = Append(terminalLog, event)
    /\ cleanup(s)
    /\ pc' = "done"
    /\ streams' = NoStreams

\* the working concurrency without the cap MAX_CONCURRENCY
ConcurrencyUncapped(caps) ==
    IF caps.has /\ caps.maxConcurrency # 0 THEN caps.maxConcurrency ELSE DEFAULT_CONCURRENCY

\* the working concurrency runDiscovery derives from the descriptor:
\* Math.min(maxConcurrency || DEFAULT_CONCURRENCY, MAX_CONCURRENCY)
Concurrency(caps) ==
    Min(IF caps.has /\ caps.maxConcurrency # 0 THEN caps.maxConcurrency
        ELSE DEFAULT_CONCURRENCY,
        MAX_CONCURRENCY)

\* number of streams runWarmup starts
initialStreams == Max(2, concurrency \div 2)

\* runDownloadStreams: every runSingleDownloadStream runs to its first await, the
\* fetch carrying this.abortController.signal
DownloadBatch(n) ==
    [i \in StreamIds |-> IF i <= n
                         THEN [pc |-> "fetch", sig |-> TRUE, bucketBytes |-> 0, totalBytes |-> 0,
                               sampledBytes |-> 0]
                         ELSE NoStream]

\* runUploadStreams: every runSingleUploadStream passes its loop test and awaits its
\* first POST, which carries this.abortController?.signal
UploadBatch(n) ==
    [i \in StreamIds |-> IF i <= n
                         THEN [pc |-> "post", sig |-> abortController = "set",
                               bucketBytes |-> 0, totalBytes |-> 0, sampledBytes |-> 0]
                         ELSE NoStream]

\* What start() does from one await to the next, as
\* [pc, log (phaseChange events), streams, launched (stream tasks started)].
runCooldown ==
    [pc |-> "cooldown", log |-> <<"cooldown">>, streams |-> NoStreams, launched |-> 0]

runMeasureUpload ==
    IF concurrency > 0
    THEN [pc |-> "measure-upload", log |-> <<"measure-upload">>,
          streams |-> UploadBatch(concurrency), launched |-> concurrency]
    ELSE [runCooldown EXCEPT !.log = <<"measure-upload">> \o @]

\* a download phase named p with n streams, followed by what `next` does. With the
\* controller gone, reading this.abortController.signal throws in every stream task;
\* each catches it and ends, Promise.all resolves and start() goes on.
DownloadPhase(p, n, next) ==
    IF abortController = "set" /\ n > 0
    THEN [pc |-> p, log |-> <<p>>, streams |-> DownloadBatch(n), launched |-> n]
    ELSE [next EXCEPT !.log = <<p>> \o @, !.launched = Max(n, 0) + @]

runMeasureDownload == DownloadPhase("measure-download", concurrency, runMeasureUpload)
\* start() without its call of runRamp
runRampSkipped == runMeasureDownload
runRamp == DownloadPhase("ramp", concurrency, runMeasureDownload)
runWarmup == DownloadPhase("warmup", initialStreams, runRamp)

\* start() resumes after the batch of phase p has been joined
AfterPhase(p) ==
    CASE p = "connecting" -> runWarmup
      [] p = "warmup" -> runRamp
      [] p = "ramp" -> runMeasureDownload
      [] p = "measure-download" -> runMeasureUpload
      [] p = "measure-upload" -> runCooldown

\* start() goes on with r
Resume(r) ==
    /\ pc' = r.pc
    /\ streams' = r.streams
    /\ phaseLog' = phaseLog \o r.log
    /\ phase' = r.log[Len(r.log)]
    /\ launched' = launched + r.launched

Running == pc \notin {"idle", "done"}


\* --------------------------------------------------- MetricsCalculator
addThroughputSample(bytes) ==
    throughputSamples' = Append(throughputSamples, bytes)

\* the sample of the probe seq
addRttSample(seq) ==
    /\ sentEchoes' = sentEchoes + 1
    /\ rttSamples' = Append(rttSamples, seq)

\* addLostEcho() without the increment of sentEchoes
addLostEchoUncounted ==
    /\ UNCHANGED sentEchoes
    /\ lostEchoes' = lostEchoes + 1

addLostEcho ==
    /\ sentEchoes' = sentEchoes + 1
    /\ lostEchoes' = lostEchoes + 1

\* ------------------------------------------------------- start / stop
\* start(): reset(), a fresh AbortController, then runDiscovery up to its await
\* reset() without `this.metrics = new MetricsCalculator()`
resetKeepsMetrics ==
    /\ capabilities' = NoCapabilities
    /\ concurrency' = DEFAULT_CONCURRENCY
    /\ ws' = "null"
    /\ echoTimer' = "null"
    /\ echoSeq' = 0
    /\ pendingEchoes' = {}
    /\ UNCHANGED metricVars

\* reset(): a fresh MetricsCalculator and the initial values of the fields; phase
\* and abortController are assigned again by start() right after
reset ==
    /\ throughputSamples' = <<>>
    /\ rttSamples' = <<>>
    /\ sentEchoes' = 0
    /\ lostEchoes' = 0
    /\ capabilities' = NoCapabilities
    /\ concurrency' = DEFAULT_CONCURRENCY
    /\ ws' = "null"
    /\ echoTimer' = "null"
    /\ echoSeq' = 0
    /\ pendingEchoes' = {}

\* samples and counters are there from an earlier run
LeftBehind == throughputSamples # <<>> /\ sentEchoes > 0 /\ echoSeq > 0

\* start() up to the await of runDiscovery: reset(), a new AbortController, the
\* 'phaseChange' event of discovery
startRun ==
    /\ reset
    /\ abortController' = "set"
    /\ aborted' = FALSE
    /\ phase' = "discovery"
    /\ pc' = "discovery"
    /\ runs' = Append(runs, LeftBehind)

\* the first start() of the orchestrator
start ==
    /\ pc = "idle"
    /\ startRun
    /\ phaseLog' = Append(phaseLog, "discovery")
    /\ UNCHANGED <<streams, wsState, connectTimer, echoInterval, echoTimeouts, parsing, delivered>>
    /\ UNCHANGED <<terminalLog, otherEvents, launched, wsCreated, timedOut, stopCalled>>
    /\ UNCHANGED <<srvVars, earlier, metrics, summary>>

\* start() called again once the run before has returned and its socket, timers
\* and responses are gone; the observations start over with the new run
startAgain ==
    /\ pc = "done"
    /\ Len(runs) < MaxRuns
    /\ wsState \in {"none", "closed"}
    /\ ~connectTimer /\ ~echoInterval
    /\ echoTimeouts = {} /\ parsing = {}
    /\ startRun
    /\ wsState' = "none"
    /\ delivered' = 0
    /\ phaseLog' = <<"discovery">>
    /\ terminalLog' = <<>>
    /\ otherEvents' = 0
    /\ launched' = 0
    /\ wsCreated' = 0
    /\ timedOut' = {}
    /\ stopCalled' = FALSE
    /\ UNCHANGED <<streams, connectTimer, echoInterval, echoTimeouts, parsing>>
    /\ UNCHANGED <<srvVars, earlier, metrics, summary>>

\* stop(): abort the controller if there is one, then cleanup()
stop ==
    /\ cleanup(wsState)
    /\ stopCalled' = (stopCalled \/ Running)
    /\ UNCHANGED <<phase, concurrency, capabilities, echoSeq, metricVars>>
    /\ UNCHANGED <<pc, streams, connectTimer, parsing, delivered>>
    /\ UNCHANGED <<phaseLog, terminalLog, otherEvents, launched, wsCreated, timedOut>>
    /\ UNCHANGED <<srvVars, runVars>>

\* ------------------------------------------------- discovery and the socket
\* getCapabilities() resolves with the descriptor caps: runDiscovery emits
\* 'capabilities' and startLatencyTest creates the socket and arms its timeout
runDiscovery(caps) ==
    /\ pc = "discovery"
    /\ capabilities' = caps
    /\ concurrency' = Concurrency(caps)
    /\ otherEvents' = otherEvents + 1
    /\ ws' = "set"
    /\ wsState' = "connecting"
    /\ wsCreated' = wsCreated + 1
    /\ connectTimer' = TRUE
    /\ pc' = "connecting"
    /\ UNCHANGED <<phase, abortController, echoTimer, echoSeq, pendingEchoes, metricVars>>
    /\ UNCHANGED <<aborted, streams, echoInterval, echoTimeouts, parsing, delivered>>
    /\ UNCHANGED <<phaseLog, terminalLog, launched, timedOut, stopCalled>>
    /\ UNCHANGED <<srvVars, runVars>>

\* getCapabilities() rejects: 'Discovery failed' reaches the catch of start()
runDiscoveryFailed ==
    /\ pc = "discovery"
    /\ Finish("error", wsState)
    /\ UNCHANGED <<phase, concurrency, capabilities, echoSeq, metricVars>>
    /\ UNCHANGED <<connectTimer, parsing, delivered>>
    /\ UNCHANGED <<phaseLog, otherEvents, launched, wsCreated, timedOut, stopCalled>>
    /\ UNCHANGED <<srvVars, runVars>>

\* startEchoLoop()
startEchoLoop ==
    /\ echoTimer' = "set"
    /\ echoInterval' = TRUE

\* ws.onopen: startEchoLoop(), resolve(); start() goes on into runWarmup
wsOnOpen ==
    /\ wsState = "connecting"
    /\ wsState' = "open"
    /\ startEchoLoop
    /\ IF pc = "connecting"
       THEN Resume(AfterPhase("connecting"))
       ELSE UNCHANGED <<pc, streams, phaseLog, phase, launched>>
    /\ UNCHANGED <<abortController, concurrency, capabilities, ws, echoSeq, pendingEchoes, metricVars>>
    /\ UNCHANGED <<aborted, connectTimer, echoTimeouts, parsing, delivered>>
    /\ UNCHANGED <<terminalLog, otherEvents, wsCreated, timedOut, stopCalled>>
    /\ UNCHANGED <<srvVars, runVars>>

\* a reject(...) of startLatencyTest that nobody awaits
RejectSwallowed(s) ==
    /\ wsState' = s
    /\ UNCHANGED <<orchVars, metricVars>>
    /\ UNCHANGED <<pc, aborted, streams, echoInterval, echoTimeouts, parsing, delivered>>
    /\ UNCHANGED obsVars

\* reject(...) of startLatencyTest: the catch of start() when it still awaits
Reject(s) ==
    IF pc = "connecting"
    THEN /\ Finish("error", s)
         /\ UNCHANGED <<phase, concurrency, capabilities, echoSeq, metricVars>>
         /\ UNCHANGED <<parsing, delivered>>
         /\ UNCHANGED <<phaseLog, otherEvents, launched, wsCreated, timedOut, stopCalled>>
    ELSE /\ wsState' = s
         /\ UNCHANGED <<orchVars, metricVars>>
         /\ UNCHANGED <<pc, aborted, streams, echoInterval, echoTimeouts, parsing, delivered>>
         /\ UNCHANGED obsVars

\* the connection fails or is dropped by the network
wsFail ==
    /\ wsState \in {"connecting", "open"}
    /\ wsState' = "failing"
    /\ UNCHANGED <<orchVars, metricVars, obsVars>>
    /\ UNCHANGED <<pc, aborted, streams, connectTimer, echoInterval, echoTimeouts, parsing, delivered>>
    /\ UNCHANGED <<srvVars, runVars>>

\* the peer closes an open connection
wsPeerClose ==
    /\ wsState = "open"
    /\ wsState' = "closing"
    /\ UNCHANGED <<orchVars, metricVars, obsVars>>
    /\ UNCHANGED <<pc, aborted, streams, connectTimer, echoInterval, echoTimeouts, parsing, delivered>>
    /\ UNCHANGED <<srvVars, runVars>>

\* ws.onerror
wsOnError ==
    /\ wsState = "failing"
    /\ Reject("closing")
    /\ UNCHANGED connectTimer
    /\ UNCHANGED <<srvVars, runVars>>

\* ws.onclose
wsOnClose ==
    /\ wsState = "closing"
    /\ wsState' = "closed"
    /\ echoInterval' = (IF echoTimer = "set" THEN FALSE ELSE echoInterval)
    /\ UNCHANGED <<orchVars, metricVars, obsVars>>
    /\ UNCHANGED <<pc, aborted, streams, connectTimer, echoTimeouts, parsing, delivered>>
    /\ UNCHANGED <<srvVars, runVars>>

\* the setTimeout(..., 5000) of startLatencyTest: with this.ws null the callback
\* throws; with a socket that is not open it rejects
connectTimeout ==
    /\ connectTimer
    /\ connectTimer' = FALSE
    /\ IF ws = "set" /\ wsState # "open"
       THEN Reject(wsState)
       ELSE /\ UNCHANGED <<orchVars, metricVars, obsVars>>
            /\ UNCHANGED <<pc, aborted, streams, wsState, echoInterval, echoTimeouts, parsing, delivered>>
    /\ UNCHANGED <<srvVars, runVars>>

\* ------------------------------------------------------------ echo loop
\* sendEcho(): the probe echoSeq goes out, its timeout is armed, it is pending
sendEcho ==
    /\ echoSeq' = echoSeq + 1
    /\ echoTimeouts' = echoTimeouts \cup {echoSeq}
    /\ pendingEchoes' = pendingEchoes \cup {echoSeq}

\* one tick of the interval of startEchoLoop
echoTick ==
    /\ echoInterval
    /\ ws = "set" /\ wsState = "open"
    /\ echoSeq < MaxEcho
    /\ sendEcho
    /\ UNCHANGED <<phase, abortController, concurrency, capabilities, ws, echoTimer, metricVars, obsVars>>
    /\ UNCHANGED <<pc, aborted, streams, wsState, connectTimer, echoInterval, parsing, delivered>>
    /\ UNCHANGED <<srvVars, runVars>>

\* the timeout callback sendEcho armed for seq
echoTimeout(seq) ==
    /\ echoTimeouts' = echoTimeouts \ {seq}
    /\ IF seq \in pendingEchoes
       THEN /\ pendingEchoes' = pendingEchoes \ {seq}
            /\ addLostEcho
            /\ timedOut' = timedOut \cup {seq}
            /\ otherEvents' = otherEvents + 1
       ELSE UNCHANGED <<pendingEchoes, sentEchoes, lostEchoes, timedOut, otherEvents>>

echoTimeoutFires(seq) ==
    /\ seq \in echoTimeouts
    /\ echoTimeout(seq)
    /\ UNCHANGED <<phase, abortController, concurrency, capabilities, ws, echoTimer, echoSeq>>
    /\ UNCHANGED <<throughputSamples, rttSamples>>
    /\ UNCHANGED <<pc, aborted, streams, wsState, connectTimer, echoInterval, parsing, delivered>>
    /\ UNCHANGED <<phaseLog, terminalLog, launched, wsCreated, stopCalled>>
    /\ UNCHANGED <<srvVars, runVars>>

\* ws.onmessage: a message carrying seq arrives on the open socket and
\* handleEchoResponse runs up to `await data.text()`
wsOnMessage(seq) ==
    /\ wsState = "open"
    /\ seq \notin parsing
    /\ parsing' = parsing \cup {seq}
    /\ UNCHANGED <<orchVars, metricVars, obsVars>>
    /\ UNCHANGED <<pc, aborted, streams, wsState, connectTimer, echoInterval, echoTimeouts, delivered>>
    /\ UNCHANGED <<srvVars, runVars>>

\* handleEchoResponse without the test this.pendingEchoes.has(seq)
handleEchoResponseUnchecked(seq) ==
    /\ echoTimeouts' = echoTimeouts \ {seq}
    /\ pendingEchoes' = pendingEchoes \ {seq}
    /\ addRttSample(seq)
    /\ otherEvents' = otherEvents + 1

\* handleEchoResponse recording the sample of a seq that is no longer pending,
\* without the event
handleEchoResponseCountsLate(seq) ==
    /\ echoTimeouts' = echoTimeouts \ {seq}
    /\ pendingEchoes' = pendingEchoes \ {seq}
    /\ addRttSample(seq)
    /\ otherEvents' = (IF seq \in pendingEchoes THEN otherEvents + 1 ELSE otherEvents)

\* handleEchoResponse once the text is there: a pending seq gives one RTT sample
handleEchoResponse(seq) ==
    IF seq \in pendingEchoes
    THEN /\ echoTimeouts' = echoTimeouts \ {seq}
         /\ pendingEchoes' = pendingEchoes \ {seq}
         /\ addRttSample(seq)
         /\ otherEvents' = otherEvents + 1
    ELSE UNCHANGED <<echoTimeouts, pendingEchoes, sentEchoes, rttSamples, otherEvents>>

echoResponse(seq) ==
    /\ seq \in parsing
    /\ parsing' = parsing \ {seq}
    /\ handleEchoResponse(seq)
    /\ UNCHANGED <<phase, abortController, concurrency, capabilities, ws, echoTimer, echoSeq>>
    /\ UNCHANGED <<throughputSamples, lostEchoes>>
    /\ UNCHANGED <<pc, aborted, streams, wsState, connectTimer, echoInterval, delivered>>
    /\ UNCHANGED <<phaseLog, terminalLog, launched, wsCreated, timedOut, stopCalled>>
    /\ UNCHANGED <<srvVars, runVars>>

\* ---------------------------------------------------------- stream tasks
\* runDownloadStreams called with isWarmup = false in every phase
isWarmupNever == FALSE
isWarmup == pc = "warmup"
\* a join that resolves with the first stream task that returns
JoinedAny(ss) == \E j \in StreamIds : ss[j].pc = "done"
Joined(ss) == \A j \in StreamIds : ss[j].pc \in {"none", "done"}

\* a stream task returns; Promise.all resolves with the last one and start() goes on
EndStream(i) ==
    LET ss == [streams EXCEPT ![i].pc = "done"] IN
    IF Joined(ss)
    THEN Resume(AfterPhase(pc))
    ELSE /\ streams' = ss
         /\ UNCHANGED <<pc, phaseLog, phase, launched>>

\* createDownloadStream resolves with an ok response: the reader is opened
dlResponse(i) ==
    /\ streams[i].pc = "fetch" /\ ~aborted
    /\ streams' = [streams EXCEPT ![i].pc = "read"]
    /\ UNCHANGED <<orchVars, metricVars, obsVars>>
    /\ UNCHANGED <<pc, aborted, wsState, connectTimer, echoInterval, echoTimeouts, parsing, delivered>>
    /\ UNCHANGED <<srvVars, runVars>>

\* reader.read() gives a chunk; `sample` says whether SAMPLE_INTERVAL has elapsed
runSingleDownloadStreamChunk(i, sample) ==
    LET bucket == streams[i].bucketBytes + 1 IN
    /\ streams' = [streams EXCEPT ![i].totalBytes = @ + 1,
                                  ![i].bucketBytes = IF sample THEN 0 ELSE bucket,
                                  ![i].sampledBytes = IF sample /\ ~isWarmup
                                                      THEN @ + bucket ELSE @]
    /\ IF sample /\ ~isWarmup
       THEN /\ addThroughputSample(bucket)
            /\ otherEvents' = otherEvents + 1
       ELSE UNCHANGED <<throughputSamples, otherEvents>>

dlChunk(i, sample) ==
    /\ streams[i].pc = "read" /\ ~aborted
    /\ delivered < MaxChunks
    /\ delivered' = delivered + 1
    /\ runSingleDownloadStreamChunk(i, sample)
    /\ UNCHANGED <<orchVars, rttSamples, sentEchoes, lostEchoes>>
    /\ UNCHANGED <<pc, aborted, wsState, connectTimer, echoInterval, echoTimeouts, parsing>>
    /\ UNCHANGED <<phaseLog, terminalLog, launched, wsCreated, timedOut, stopCalled>>
    /\ UNCHANGED <<srvVars, runVars>>

\* reader.read() gives done and the task returns without its `Add final bucket`
dlDoneDropsBucket(i) ==
    /\ streams[i].pc = "read" /\ ~aborted
    /\ UNCHANGED throughputSamples
    /\ EndStream(i)
    /\ UNCHANGED <<abortController, concurrency, capabilities, ws, echoTimer, echoSeq, pendingEchoes>>
    /\ UNCHANGED <<rttSamples, sentEchoes, lostEchoes>>
    /\ UNCHANGED <<aborted, wsState, connectTimer, echoInterval, echoTimeouts, parsing, delivered>>
    /\ UNCHANGED <<terminalLog, otherEvents, wsCreated, timedOut, stopCalled>>
    /\ UNCHANGED <<srvVars, runVars>>

\* reader.read() gives done: the last bucket is recorded, the task returns
dlDone(i) ==
    /\ streams[i].pc = "read" /\ ~aborted
    /\ IF streams[i].bucketBytes > 0 /\ ~isWarmup
       THEN addThroughputSample(streams[i].bucketBytes)
       ELSE UNCHANGED throughputSamples
    /\ EndStream(i)
    /\ UNCHANGED <<abortController, concurrency, capabilities, ws, echoTimer, echoSeq, pendingEchoes>>
    /\ UNCHANGED <<rttSamples, sentEchoes, lostEchoes>>
    /\ UNCHANGED <<aborted, wsState, connectTimer, echoInterval, echoTimeouts, parsing, delivered>>
    /\ UNCHANGED <<terminalLog, otherEvents, wsCreated, timedOut, stopCalled>>
    /\ UNCHANGED <<srvVars, runVars>>

\* a failing task without the try/catch of its body: the error rejects Promise.all
\* and reaches the catch of start()
streamFailedFast(i) ==
    /\ streams[i].pc \in {"fetch", "read", "post"}
    /\ ~(streams[i].sig /\ aborted)
    /\ Finish("error", wsState)
    /\ UNCHANGED <<phase, concurrency, capabilities, echoSeq, metricVars>>
    /\ UNCHANGED <<connectTimer, parsing, delivered>>
    /\ UNCHANGED <<phaseLog, otherEvents, launched, wsCreated, timedOut, stopCalled>>
    /\ UNCHANGED <<srvVars, runVars>>

\* a bad response status or a transport error: thrown, caught in the task, logged
streamFailed(i) ==
    /\ streams[i].pc \in {"fetch", "read", "post"}
    /\ ~(streams[i].sig /\ aborted)
    /\ EndStream(i)
    /\ UNCHANGED <<abortController, concurrency, capabilities, ws, echoTimer, echoSeq, pendingEchoes>>
    /\ UNCHANGED metricVars
    /\ UNCHANGED <<aborted, wsState, connectTimer, echoInterval, echoTimeouts, parsing, delivered>>
    /\ UNCHANGED <<terminalLog, otherEvents, wsCreated, timedOut, stopCalled>>
    /\ UNCHANGED <<srvVars, runVars>>

\* the fetch or read of the task rejects with AbortError: caught in the task
streamAborted(i) ==
    /\ streams[i].pc \in {"fetch", "read", "post"}
    /\ streams[i].sig /\ aborted
    /\ EndStream(i)
    /\ UNCHANGED <<abortController, concurrency, capabilities, ws, echoTimer, echoSeq, pendingEchoes>>
    /\ UNCHANGED metricVars
    /\ UNCHANGED <<aborted, wsState, connectTimer, echoInterval, echoTimeouts, parsing, delivered>>
    /\ UNCHANGED <<terminalLog, otherEvents, wsCreated, timedOut, stopCalled>>
    /\ UNCHANGED <<srvVars, runVars>>

\* the loop test of runSingleUploadStream, apart from the clock
uploadLoopTest == abortController = "null" \/ ~aborted

\* a POST of runSingleUploadStream resolves ok: the chunk is recorded; with
\* `intime` (Date.now() < endTime) and the loop test the next POST goes out
runSingleUploadStreamPosted(i, intime) ==
    /\ streams[i].pc = "post"
    /\ ~(streams[i].sig /\ aborted)
    /\ addThroughputSample(chunkSize)
    /\ otherEvents' = otherEvents + 1
    /\ IF intime /\ uploadLoopTest
       THEN /\ streams' = [streams EXCEPT ![i].totalBytes = @ + chunkSize,
                                          ![i].sampledBytes = @ + chunkSize,
                                          ![i].sig = (abortController = "set")]
            /\ UNCHANGED <<pc, phaseLog, phase, launched>>
       ELSE EndStream(i)
    /\ UNCHANGED <<abortController, concurrency, capabilities, ws, echoTimer, echoSeq, pendingEchoes>>
    /\ UNCHANGED <<rttSamples, sentEchoes, lostEchoes>>
    /\ UNCHANGED <<aborted, wsState, connectTimer, echoInterval, echoTimeouts, parsing>>
    /\ UNCHANGED <<terminalLog, wsCreated, timedOut, stopCalled>>
    /\ UNCHANGED <<srvVars, runVars>>

\* a POST resolves within the chunks a full run is followed for
ulResponse(i, intime) ==
    /\ delivered < MaxChunks
    /\ delivered' = delivered + 1
    /\ runSingleUploadStreamPosted(i, intime)

\* a POST resolves in the upload phase followed on its own
ulPosted(i, intime) ==
    /\ streams[i].totalBytes < MaxUploads * chunkSize
    /\ runSingleUploadStreamPosted(i, intime)
    /\ UNCHANGED delivered

\* the sleep of runCooldown ends: 'complete', then the finally block
cooldownDone ==
    /\ pc = "cooldown"
    /\ Finish("complete", wsState)
    /\ UNCHANGED <<phase, concurrency, capabilities, echoSeq, metricVars>>
    /\ UNCHANGED <<connectTimer, parsing, delivered>>
    /\ UNCHANGED <<phaseLog, otherEvents, launched, wsCreated, timedOut, stopCalled>>
    /\ UNCHANGED <<srvVars, runVars>>

\* the descriptors the server of a full run advertises
Advertised == {Descriptor(n) : n \in 1..MaxAdvertised}

Next ==
    \/ start
    \/ stop
    \/ \E caps \in Advertised : runDiscovery(caps)
    \/ runDiscoveryFailed
    \/ wsOnOpen
    \/ wsFail
    \/ wsPeerClose
    \/ wsOnError
    \/ wsOnClose
    \/ connectTimeout
    \/ echoTick
    \/ \E seq \in EchoSeqs : echoTimeoutFires(seq)
    \/ \E seq \in EchoSeqs : wsOnMessage(seq)
    \/ \E seq \in EchoSeqs : echoResponse(seq)
    \/ \E i \in StreamIds : dlResponse(i)
    \/ \E i \in StreamIds, sample \in BOOLEAN : dlChunk(i, sample)
    \/ \E i \in StreamIds : dlDone(i)
    \/ \E i \in StreamIds : streamFailed(i)
    \/ \E i \in StreamIds : streamAborted(i)
    \/ \E i \in StreamIds, intime \in BOOLEAN : ulResponse(i, intime)
    \/ cooldownDone

Spec == Init /\ [][Next]_vars

\* ------------------------------------------ a MetricsCalculator on its own
\* what the callers pass: bytes of a sample, Date.now() of a sample, an RTT in ms
SampleBytes == {125000, 250000}
Timestamps == {0, 3000, 3999, 4000}
RttValues == {0, 100, 200}
\* the percentiles asked for
Percentiles == {0, 17, 33, 34, 50, 95, 99, 100}

\* calls of addThroughputSample, addRttSample and addLostEcho since reset()
Calls == Len(metrics.throughputSamples) + metrics.sentEchoes

\* the body of addThroughputSample(bytes, timestamp)
addThroughputSampleTo(bytes, timestamp) ==
    /\ metrics' = [metrics EXCEPT !.throughputSamples =
                       Append(@, [bytes |-> bytes, timestamp |-> timestamp])]
    /\ UNCHANGED <<clientVars, srvVars, runs, earlier, summary>>

\* addThroughputSample(bytes, timestamp)
metricsAddThroughputSample(bytes, timestamp) ==
    Calls < MaxCalls /\ addThroughputSampleTo(bytes, timestamp)

\* the estimator of addRttSample with the gain 1/8
jitterUpdateEighth(jitterEstimate, D) ==
    DAdd(jitterEstimate, DDivInt(DSub(DInt(D), jitterEstimate), 8))

\* this.jitterEstimate + (D - this.jitterEstimate) / 16
jitterUpdate(jitterEstimate, D) ==
    DAdd(jitterEstimate, DDivInt(DSub(DInt(D), jitterEstimate), 16))

\* Math.abs of the difference of two integers
AbsDiff(a, b) == IF a < b THEN b - a ELSE a - b

\* the body of addRttSample(rtt, timestamp)
addRttSampleTo(rtt) ==
    /\ metrics' =
         LET counted == [metrics EXCEPT !.sentEchoes = @ + 1,
                                        !.rttSamples = Append(@, rtt),
                                        !.lastRtt = rtt]
             D == AbsDiff(rtt, metrics.lastRtt)
         IN IF metrics.lastRtt > 0
            THEN [counted EXCEPT !.jitterEstimate = jitterUpdate(@, D),
                                 !.jitterSamples = Append(@, D)]
            ELSE counted
    /\ UNCHANGED <<clientVars, srvVars, runs, earlier, summary>>

\* addRttSample(rtt, timestamp)
metricsAddRttSample(rtt) == Calls < MaxCalls /\ addRttSampleTo(rtt)

\* the body of addLostEcho()
addLostEchoTo ==
    /\ metrics' = [metrics EXCEPT !.sentEchoes = @ + 1, !.lostEchoes = @ + 1]
    /\ UNCHANGED <<clientVars, srvVars, runs, earlier, summary>>

\* addLostEcho()
metricsAddLostEcho == Calls < MaxCalls /\ addLostEchoTo

\* reset()
metricsReset ==
    /\ metrics # NewMetricsCalculator
    /\ metrics' = NewMetricsCalculator
    /\ UNCHANGED <<clientVars, srvVars, runs, earlier, summary>>

\* Array.prototype.sort (stable) with (a, b) => a.timestamp - b.timestamp
RECURSIVE SortByTimestamp(_)
SortByTimestamp(samples) ==
    IF samples = <<>>
    THEN <<>>
    ELSE LET front == SortByTimestamp(SubSeq(samples, 1, Len(samples) - 1))
             last == samples[Len(samples)]
             n == Cardinality({k \in 1..Len(front) : front[k].timestamp <= last.timestamp})
         IN SubSeq(front, 1, n) \o <<last>> \o SubSeq(front, n + 1, Len(front))

\* Array.prototype.sort (stable) with (a, b) => a - b
RECURSIVE SortNumbers(_)
SortNumbers(numbers) ==
    IF numbers = <<>>
    THEN <<>>
    ELSE LET front == SortNumbers(SubSeq(numbers, 1, Len(numbers) - 1))
             last == numbers[Len(numbers)]
             n == Cardinality({k \in 1..Len(front) : DLeq(front[k], last)})
         IN SubSeq(front, 1, n) \o <<last>> \o SubSeq(front, n + 1, Len(front))

\* percentile(sortedArray, percentile)
percentile(sortedArray, p) ==
    IF Len(sortedArray) = 0 THEN DZero
    ELSE IF Len(sortedArray) = 1 THEN sortedArray[1]
    ELSE LET index == DMul(DDivInt(DInt(p), 100), DInt(Len(sortedArray) - 1))
             lower == DFloor(index)
             upper == DCeil(index)
             weight == DSub(index, DInt(lower))
         IN DAdd(DMul(sortedArray[lower + 1], DSub(DOne, weight)),
                 DMul(sortedArray[upper + 1], weight))

\* the samples calculateThroughput would keep if startTime were the first timestamp
measuredSamplesFromFirst(samples, warmupMs) == SortByTimestamp(samples)

\* the samples calculateThroughput keeps: sorted by timestamp, without those
\* before startTime
measuredSamples(samples, warmupMs) ==
    LET sorted == SortByTimestamp(samples)
        startTime == sorted[1].timestamp + warmupMs
    IN SelectSeq(sorted, LAMBDA sample : sample.timestamp >= startTime)

\* the inner loop of calculateThroughput from index j on
RECURSIVE bytesInWindow(_, _, _)
bytesInWindow(measured, j, windowEnd) ==
    IF j > Len(measured) THEN 0
    ELSE IF measured[j].timestamp < windowEnd
    THEN measured[j].bytes + bytesInWindow(measured, j + 1, windowEnd)
    ELSE 0

\* the conversion of calculateThroughput without the factor 8
MbpsOfBytes(bytes) == DDivInt(DDivInt(DInt(bytes), windowSize \div 1000), 1000000)

\* (bytesInWindow * 8) / (this.windowSize / 1000) / 1e6
Mbps(bytes) == DDivInt(DDivInt(DInt(bytes * 8), windowSize \div 1000), 1000000)

\* the window rates of calculateThroughput, one per measured sample
windowRates(measured) ==
    [i \in 1..Len(measured) |->
        Mbps(bytesInWindow(measured, i, measured[i].timestamp + windowSize))]

RECURSIVE SumNumbers(_)
SumNumbers(numbers) ==
    IF numbers = <<>> THEN DZero
    ELSE DAdd(SumNumbers(SubSeq(numbers, 1, Len(numbers) - 1)), numbers[Len(numbers)])

NoThroughput ==
    [medianMbps |-> DZero, p95Mbps |-> DZero, p99Mbps |-> DZero, avgMbps |-> DZero,
     maxMbps |-> DZero]

\* calculateThroughput(warmupMs) on the samples of an instance
calculateThroughput(samples, warmupMs) ==
    IF Len(samples) = 0 THEN NoThroughput
    ELSE IF Len(measuredSamples(samples, warmupMs)) = 0 THEN NoThroughput
    ELSE LET sortedRates == SortNumbers(windowRates(measuredSamples(samples, warmupMs)))
         IN [medianMbps |-> percentile(sortedRates, 50),
             p95Mbps |-> percentile(sortedRates, 95),
             p99Mbps |-> percentile(sortedRates, 99),
             avgMbps |-> DDivInt(SumNumbers(sortedRates), Len(sortedRates)),
             maxMbps |-> sortedRates[Len(sortedRates)]]

\* the sorted RTTs of calculateLatency
sortedRtts(rttSamples_) == SortNumbers([i \in 1..Len(rttSamples_) |-> DInt(rttSamples_[i])])

\* calculateJitter()
calculateJitter(c) ==
    IF Len(c.jitterSamples) = 0
    THEN [meanMs |-> DZero, p95Ms |-> DZero]
    ELSE [meanMs |-> c.jitterEstimate,
          p95Ms |-> percentile(SortNumbers([i \in 1..Len(c.jitterSamples) |->
                                               DInt(c.jitterSamples[i])]), 95)]

NextMetrics ==
    \/ \E bytes \in SampleBytes, timestamp \in Timestamps :
          metricsAddThroughputSample(bytes, timestamp)
    \/ \E rtt \in RttValues : metricsAddRttSample(rtt)
    \/ metricsAddLostEcho
    \/ metricsReset

SpecMetrics == Init /\ [][NextMetrics]_vars

\* -------------------------------- the echo probes of a MetricsCalculator
\* the RTTs of the answered probes
ProbeRtts == {100, 200}

\* the conversion of calculatePacketLoss to a fraction instead of a percentage
calculatePacketLossFraction(c) ==
    IF c.sentEchoes = 0 THEN DZero
    ELSE DDivInt(DInt(c.lostEchoes), c.sentEchoes)

\* what 0 / 0 gives: not a number
NotANumber == [neg |-> FALSE, m |-> <<>>, e |-> 1]

\* calculatePacketLoss without its first line: (lostEchoes / sentEchoes) * 100 always
calculatePacketLossUnguarded(c) ==
    IF c.sentEchoes = 0 THEN NotANumber
    ELSE DMul(DDivInt(DInt(c.lostEchoes), c.sentEchoes), DInt(100))

\* calculatePacketLoss()
calculatePacketLoss(c) ==
    IF c.sentEchoes = 0 THEN DZero
    ELSE DMul(DDivInt(DInt(c.lostEchoes), c.sentEchoes), DInt(100))

\* a probe is answered: handleEchoResponse calls addRttSample
probeAnswered(rtt) == metrics.sentEchoes < MaxProbes /\ addRttSampleTo(rtt)

\* a probe times out: the timer of sendEcho calls addLostEcho
probeLost == metrics.sentEchoes < MaxProbes /\ addLostEchoTo

NextProbes ==
    \/ \E rtt \in ProbeRtts : probeAnswered(rtt)
    \/ probeLost
    \/ metricsReset

SpecProbes == Init /\ [][NextProbes]_vars

\* ------------------------------- the summary of a MetricsCalculator
NoLatency ==
    [minMs |-> DZero, avgMs |-> DZero, medianMs |-> DZero, p95Ms |-> DZero,
     p99Ms |-> DZero]

\* calculateLatency()
calculateLatency(c) ==
    IF Len(c.rttSamples) = 0 THEN NoLatency
    ELSE LET rtts == [i \in 1..Len(c.rttSamples) |-> DInt(c.rttSamples[i])]
             sorted == sortedRtts(c.rttSamples)
         IN [minMs |-> sorted[1],
             avgMs |-> DDivInt(SumNumbers(rtts), Len(rtts)),
             medianMs |-> percentile(sorted, 50),
             p95Ms |-> percentile(sorted, 95),
             p99Ms |-> percentile(sorted, 99)]

\* the score of calculateStability with cv taken as a percentage already
StabilityScoreOfRatio(cv, latencyPenalty) ==
    DMax(DZero, DMin(DInt(100), DSub(DSub(DInt(100), cv), latencyPenalty)))

\* Math.max(0, Math.min(100, 100 - (cv * 100) - latencyPenalty))
StabilityScore(cv, latencyPenalty) ==
    DMax(DZero, DMin(DInt(100), DSub(DSub(DInt(100), DMul(cv, DInt(100))), latencyPenalty)))

\* calculateStability(warmupMs)
calculateStability(c, warmupMs) ==
    LET throughput == calculateThroughput(c.throughputSamples, warmupMs)
        latency == calculateLatency(c)
        cv == IF DLess(DZero, throughput.avgMbps)
              THEN DDiv(DAbs(DSub(throughput.medianMbps, throughput.avgMbps)),
                        throughput.avgMbps)
              ELSE DZero
        latencyPenalty == DMin(DDivInt(latency.p95Ms, 10), DInt(50))
    IN MathRound(StabilityScore(cv, latencyPenalty))

\* getMetrics()
getMetrics(c) ==
    [throughput |-> calculateThroughput(c.throughputSamples, DefaultWarmupMs),
     latency |-> calculateLatency(c),
     jitter |-> calculateJitter(c),
     packetLoss |-> calculatePacketLoss(c),
     stability |-> calculateStability(c, DefaultWarmupMs)]

\* a calculator fed by one stream and the echo loop: the Date.now() of the
\* throughput samples in their order, their sizes, and the RTTs
SampleTimes == <<0, 3000, 4000, 5000>>
SampleSizes == {125000, 1250000}
SummaryRtts == {0, 100, 600}

sampleRecorded(bytes) ==
    /\ Len(metrics.throughputSamples) < Len(SampleTimes)
    /\ addThroughputSampleTo(bytes, SampleTimes[Len(metrics.throughputSamples) + 1])

rttRecorded(rtt) == Len(metrics.rttSamples) < MaxRtts /\ addRttSampleTo(rtt)

NextSummary ==
    \/ \E bytes \in SampleSizes : sampleRecorded(bytes)
    \/ \E rtt \in SummaryRtts : rttRecorded(rtt)
    \/ metricsReset

SpecSummary == Init /\ [][NextSummary]_vars

\* ------------------------- the summaries read from a MetricsCalculator
Calculators ==
    {"calculateThroughput", "calculateLatency", "calculateJitter",
     "calculatePacketLoss", "calculateStability", "getMetrics"}

\* what a calculator returns
Returned(calc, c) ==
    CASE calc = "calculateThroughput" -> calculateThroughput(c.throughputSamples, DefaultWarmupMs)
      [] calc = "calculateLatency" -> calculateLatency(c)
      [] calc = "calculateJitter" -> calculateJitter(c)
      [] calc = "calculatePacketLoss" -> calculatePacketLoss(c)
      [] calc = "calculateStability" -> calculateStability(c, DefaultWarmupMs)
      [] calc = "getMetrics" -> getMetrics(c)

\* the instance after a calculator that sorts this.throughputSamples itself
AfterSortInPlace(calc, c) ==
    IF calc \in {"calculateThroughput", "calculateStability", "getMetrics"}
    THEN [c EXCEPT !.throughputSamples = SortByTimestamp(@)]
    ELSE c

\* the instance after a calculator: each one sorts a copy ([...list].sort) and
\* assigns to no field
AfterCalculator(calc, c) == c

\* a call of one calculator
metricsRead(calc) ==
    /\ metrics' = AfterCalculator(calc, metrics)
    /\ summary' = [calc |-> calc, before |-> metrics, of |-> metrics']
    /\ UNCHANGED <<clientVars, srvVars, runs, earlier>>

\* the Date.now() of the throughput samples of an instance whose summaries are read
ReadTimestamps == {0, DefaultWarmupMs}

NextReads ==
    \/ \E timestamp \in ReadTimestamps : metricsAddThroughputSample(125000, timestamp)
    \/ \E rtt \in ProbeRtts : metricsAddRttSample(rtt)
    \/ metricsAddLostEcho
    \/ \E calc \in Calculators : metricsRead(calc)

SpecReads == Init /\ [][NextReads]_vars

\* measure-upload just entered, in a run of one stream whose downloads all failed:
\* the socket is open, the connect timeout has passed, the first POST is out
InitUpload ==
    /\ phase = "measure-upload"
    /\ abortController = "set"
    /\ concurrency = 1
    /\ capabilities = Descriptor(1)
    /\ ws = "set"
    /\ echoTimer = "set"
    /\ echoSeq = 0
    /\ pendingEchoes = {}
    /\ throughputSamples = <<>>
    /\ rttSamples = <<>>
    /\ sentEchoes = 0
    /\ lostEchoes = 0
    /\ pc = "measure-upload"
    /\ aborted = FALSE
    /\ streams = UploadBatch(1)
    /\ wsState = "open"
    /\ connectTimer = FALSE
    /\ echoInterval = TRUE
    /\ echoTimeouts = {}
    /\ parsing = {}
    /\ delivered = 0
    /\ phaseLog = <<"discovery", "warmup", "ramp", "measure-download", "measure-upload">>
    /\ terminalLog = <<>>
    /\ otherEvents = 1
    /\ launched = 5
    /\ wsCreated = 1
    /\ timedOut = {}
    /\ stopCalled = FALSE
    /\ runs = <<FALSE>>
    /\ earlier = "none"
    /\ ServerInit /\ variant = "basic"
    /\ metrics = NewMetricsCalculator /\ summary = NoSummary

NextUpload ==
    \/ \E i \in StreamIds, intime \in BOOLEAN : ulPosted(i, intime)
    \/ \E i \in StreamIds : streamFailed(i)
    \/ \E i \in StreamIds : streamAborted(i)
    \/ stop
    \/ cooldownDone

SpecUpload == InitUpload /\ [][NextUpload]_vars

\* one run after the other
NextRestart == Next \/ startAgain

\* ------------------------------ start() while the run before has not returned
\* start() called again after stop(), when the socket, the timers and the responses
\* of the run before are gone but its start() call still sleeps in runCooldown; the
\* observations start over with the new run
startDuringCooldown ==
    /\ pc = "cooldown"
    /\ stopCalled
    /\ earlier = "none"
    /\ Len(runs) < MaxRuns
    /\ wsState \in {"none", "closed"}
    /\ ~connectTimer /\ ~echoInterval
    /\ echoTimeouts = {} /\ parsing = {}
    /\ startRun
    /\ earlier' = "cooldown"
    /\ wsState' = "none"
    /\ delivered' = 0
    /\ phaseLog' = <<"discovery">>
    /\ terminalLog' = <<>>
    /\ otherEvents' = 0
    /\ launched' = 0
    /\ wsCreated' = 0
    /\ timedOut' = {}
    /\ stopCalled' = FALSE
    /\ UNCHANGED <<streams, connectTimer, echoInterval, echoTimeouts, parsing>>
    /\ UNCHANGED <<srvVars, metrics, summary>>

\* the sleep of the earlier start() call ends: it emits 'complete' and its finally
\* block calls cleanup(), on the fields as they are now
earlierCooldownDone ==
    /\ earlier = "cooldown"
    /\ earlier' = "none"
    /\ terminalLog' = Append(terminalLog, "complete")
    /\ cleanup(wsState)
    /\ UNCHANGED <<phase, concurrency, capabilities, echoSeq, metricVars>>
    /\ UNCHANGED <<pc, streams, connectTimer, parsing, delivered>>
    /\ UNCHANGED <<phaseLog, otherEvents, launched, wsCreated, timedOut, stopCalled>>
    /\ UNCHANGED <<srvVars, runs, metrics, summary>>

NextOverlap == Next \/ startDuringCooldown \/ earlierCooldownDone

\* ------- a run nobody stops, whose discovery succeeds and whose socket opens
\* a POST resolves; the deadline of the upload loop passes after at most MaxChunks
\* chunks of the run
ulResponseInTime(i, intime) ==
    /\ intime => delivered < MaxChunks
    /\ delivered' = (IF intime THEN delivered + 1 ELSE delivered)
    /\ runSingleUploadStreamPosted(i, intime)

\* the connect timeout fires once the socket has opened
connectTimeoutOpened == wsState # "connecting" /\ connectTimeout

NextLive ==
    \/ start
    \/ \E caps \in Advertised : runDiscovery(caps)
    \/ wsOnOpen
    \/ wsPeerClose
    \/ wsOnClose
    \/ connectTimeoutOpened
    \/ echoTick
    \/ \E seq \in EchoSeqs : echoTimeoutFires(seq)
    \/ \E seq \in EchoSeqs : wsOnMessage(seq)
    \/ \E seq \in EchoSeqs : echoResponse(seq)
    \/ \E i \in StreamIds : dlResponse(i)
    \/ \E i \in StreamIds, sample \in BOOLEAN : dlChunk(i, sample)
    \/ \E i \in StreamIds : dlDone(i)
    \/ \E i \in StreamIds : streamFailed(i)
    \/ \E i \in StreamIds, intime \in BOOLEAN : ulResponseInTime(i, intime)
    \/ cooldownDone

\* what the run waits for comes: the descriptor, the open socket, for every stream
\* the response, its end, and a POST that resolves after the deadline, the timer of
\* the cooldown, the timers of the probes and the close event of the socket
LiveFairness ==
    /\ WF_vars(\E caps \in Advertised : runDiscovery(caps))
    /\ WF_vars(wsOnOpen)
    /\ \A i \in StreamIds :
          WF_vars(dlResponse(i) \/ dlDone(i) \/ ulResponseInTime(i, FALSE))
    /\ WF_vars(cooldownDone)
    /\ WF_vars(\E seq \in EchoSeqs : echoTimeoutFires(seq))
    /\ WF_vars(wsOnClose)

SpecLive == Init /\ [][NextLive]_vars /\ LiveFairness

SpecOverlap == Init /\ [][NextOverlap]_vars

SpecRestart == Init /\ [][NextRestart]_vars

\* ---- discovery for any descriptor, in runs whose echo channel does not open
WideAdvertised == {DescriptorWithout} \cup {Descriptor(n) : n \in (0 - 1)..MaxWide}

NextDiscovery ==
    \/ start
    \/ stop
    \/ \E caps \in WideAdvertised : runDiscovery(caps)
    \/ runDiscoveryFailed
    \/ wsFail
    \/ wsOnError
    \/ wsOnClose
    \/ connectTimeout

SpecDiscovery == Init /\ [][NextDiscovery]_vars

\* ------------------------------------------------------------- backend
\* MAX_CONCURRENCY of the two servers
MaxConnections == IF variant = "basic" THEN 64 ELSE 32

checkRateLimit == ipConnections < MaxConnections

\* decrementConnection(ip), from the count c
decrementConnection(c) == IF c <= 1 THEN 0 ELSE c - 1

\* ---- req.query.seconds: absent, or a text (a sequence of characters)
Digits == <<"0", "1", "2", "3", "4", "5", "6", "7", "8", "9">>
IsDigit(ch) == \E d \in 1..10 : Digits[d] = ch
DigitValue(ch) == (CHOOSE d \in 1..10 : Digits[d] = ch) - 1

\* the value of the longest prefix of t made of digits, after the digits read so far
\* gave acc
RECURSIVE ReadDigits(_, _)
ReadDigits(t, acc) ==
    IF t = <<>> \/ ~IsDigit(Head(t)) THEN acc
    ELSE ReadDigits(Tail(t), 10 * acc + DigitValue(Head(t)))

RECURSIVE SkipWhite(_)
SkipWhite(t) == IF t # <<>> /\ Head(t) = " " THEN SkipWhite(Tail(t)) ELSE t

\* parseInt(text) in radix 10: leading white space, an optional sign, then digits up
\* to the first other character; NaN when there is no digit. An absent parameter is
\* undefined, which parseInt reads as the text "undefined".
parseInt(q) ==
    LET t == SkipWhite(q.text)
        neg == t # <<>> /\ Head(t) = "-"
        u == IF t # <<>> /\ Head(t) \in {"-", "+"} THEN Tail(t) ELSE t
    IN IF ~q.present \/ u = <<>> \/ ~IsDigit(Head(u))
       THEN [nan |-> TRUE, val |-> 0]
       ELSE [nan |-> FALSE, val |-> IF neg THEN 0 - ReadDigits(u, 0) ELSE ReadDigits(u, 0)]

\* validateTestParams, for the seconds parameter: next() is called
validateTestParams(q) ==
    q.present => LET sec == parseInt(q) IN ~(sec.nan \/ sec.val < 1 \/ sec.val > 120)

\* Math.min(parseInt(req.query.seconds) || 15, 120)
Seconds(q) ==
    LET sec == parseInt(q) IN Min(IF sec.nan \/ sec.val = 0 THEN 15 ELSE sec.val, 120)

\* the queries of the model
Queries ==
    {[present |-> FALSE, text |-> <<>>]} \cup
    {[present |-> TRUE, text |-> t] :
        t \in {<<>>, <<"0">>, <<"1">>, <<"-", "5">>, <<"6", "0">>, <<"1", "2", "0">>,
               <<"1", "2", "1">>, <<"9", "9", "9">>, <<"a", "b">>, <<"7", "s">>, <<" ", "3">>}}

\* the terminal test of sendChunk, apart from the clock
sendChunkStops ==
    \/ variant = "basic" /\ bytesSent >= MAX_BYTES_PER_STREAM
    \/ writableEnded

\* what sendChunk writes
chunkToSend ==
    IF variant = "basic" /\ bytesSent + CHUNK_SIZE > MAX_BYTES_PER_STREAM
    THEN MAX_BYTES_PER_STREAM - bytesSent
    ELSE CHUNK_SIZE

\* sendChunk with setImmediate(sendChunk) whatever res.write returned
sendChunkBusy(g, c, timeup, canWrite) ==
    IF timeup \/ sendChunkStops
    THEN /\ writableEnded' = TRUE
         /\ status' = (IF writableEnded THEN status ELSE 200)
         /\ activeStreamsGauge' = [g EXCEPT !["download"] = @ - 1]
         /\ ipConnections' = decrementConnection(c)
         /\ bytesServedCalls' = [bytesServedCalls EXCEPT !["download"] = @ + 1]
         /\ scheduled' = "none"
         /\ writableNeedDrain' = FALSE
         /\ UNCHANGED bytesSent
    ELSE /\ bytesSent < MaxSent
         /\ bytesSent' = bytesSent + chunkToSend
         /\ writableNeedDrain' = ~(canWrite /\ ~closed)
         /\ scheduled' = "immediate"
         /\ activeStreamsGauge' = g
         /\ ipConnections' = c
         /\ UNCHANGED <<writableEnded, status, bytesServedCalls>>

\* one call of sendChunk, the gauge being g and the address count c; `timeup` is
\* Date.now() >= endTime, `canWrite` what res.write returns on a live connection
\* (on a closed one it returns false)
sendChunk(g, c, timeup, canWrite) ==
    IF timeup \/ sendChunkStops
    THEN /\ writableEnded' = TRUE
         /\ status' = (IF writableEnded THEN status ELSE 200)
         /\ activeStreamsGauge' = [g EXCEPT !["download"] = @ - 1]
         /\ ipConnections' = decrementConnection(c)
         /\ bytesServedCalls' = [bytesServedCalls EXCEPT !["download"] = @ + 1]
         /\ scheduled' = "none"
         /\ writableNeedDrain' = FALSE
         /\ UNCHANGED bytesSent
    ELSE /\ bytesSent < MaxSent
         /\ bytesSent' = bytesSent + chunkToSend
         /\ writableNeedDrain' = ~(canWrite /\ ~closed)
         /\ scheduled' = (IF canWrite /\ ~closed THEN "immediate" ELSE "drain")
         /\ activeStreamsGauge' = g
         /\ ipConnections' = c
         /\ UNCHANGED <<writableEnded, status, bytesServedCalls>>

\* app.get('/download') for the query q: validateTestParams where it is installed,
\* then the handler with its first sendChunk(). An end time that is not in the
\* future is reached at once.
download(q, timeup, canWrite) ==
    /\ request = "none"
    /\ checkRateLimit
    /\ query' = q
    /\ IF variant = "secure" /\ ~validateTestParams(q)
       THEN /\ request' = "rejected"
            /\ status' = 400
            /\ writableEnded' = TRUE
            /\ UNCHANGED <<activeStreamsGauge, ipConnections, bytesServedCalls, bytesSent>>
            /\ UNCHANGED <<scheduled, seconds, writableNeedDrain>>
       ELSE /\ request' = "download"
            /\ seconds' = Seconds(q)
            /\ Seconds(q) <= 0 => timeup
            /\ sendChunk([activeStreamsGauge EXCEPT !["download"] = @ + 1],
                         ipConnections + 1, timeup, canWrite)
    /\ UNCHANGED <<variant, closed, receivedBytes, paused, ended, destroyed>>
    /\ UNCHANGED echoVars
    /\ UNCHANGED <<clientVars, runVars>>

\* the sendChunk that setImmediate scheduled
sendChunkImmediate(timeup, canWrite) ==
    /\ request = "download"
    /\ scheduled = "immediate"
    /\ sendChunk(activeStreamsGauge, ipConnections, timeup, canWrite)
    /\ UNCHANGED <<variant, request, closed, receivedBytes, paused, ended, destroyed>>
    /\ UNCHANGED <<query, seconds>>
    /\ UNCHANGED echoVars
    /\ UNCHANGED <<clientVars, runVars>>

\* 'drain' on a live response: the sendChunk that res.once('drain') registered
sendChunkDrain(timeup, canWrite) ==
    /\ request = "download"
    /\ scheduled = "drain"
    /\ ~closed
    /\ sendChunk(activeStreamsGauge, ipConnections, timeup, canWrite)
    /\ UNCHANGED <<variant, request, closed, receivedBytes, paused, ended, destroyed>>
    /\ UNCHANGED <<query, seconds>>
    /\ UNCHANGED echoVars
    /\ UNCHANGED <<clientVars, runVars>>

\* the handler of res.on('close') of /download
downloadOnClose ==
    IF ~writableEnded
    THEN /\ activeStreamsGauge' = [activeStreamsGauge EXCEPT !["download"] = @ - 1]
         /\ ipConnections' = decrementConnection(ipConnections)
         /\ bytesServedCalls' = [bytesServedCalls EXCEPT !["download"] = @ + 1]
    ELSE UNCHANGED <<activeStreamsGauge, ipConnections, bytesServedCalls>>

\* 'close' of the download response: the caller went away, or the response is finished
resClose ==
    /\ request = "download"
    /\ ~closed
    /\ closed' = TRUE
    /\ downloadOnClose
    /\ UNCHANGED <<variant, request, bytesSent, scheduled, writableEnded, status>>
    /\ UNCHANGED <<receivedBytes, paused, ended, destroyed>>
    /\ UNCHANGED <<dlVars, echoVars>>
    /\ UNCHANGED <<clientVars, runVars>>

\* app.post('/upload'): the handler
upload ==
    /\ request = "none"
    /\ checkRateLimit
    /\ request' = "upload"
    /\ ipConnections' = ipConnections + 1
    /\ activeStreamsGauge' = [activeStreamsGauge EXCEPT !["upload"] = @ + 1]
    /\ UNCHANGED <<variant, bytesServedCalls, bytesSent, scheduled, writableEnded, status>>
    /\ UNCHANGED <<closed, receivedBytes, paused, ended, destroyed>>
    /\ UNCHANGED <<dlVars, echoVars>>
    /\ UNCHANGED <<clientVars, runVars>>

\* the ceiling of the 'data' handler
maxSize == IF variant = "basic" THEN MAX_BYTES_PER_STREAM ELSE MAX_UPLOAD_SIZE

\* the handler of req.on('data') for a chunk of n bytes
uploadOnData(n) ==
    /\ receivedBytes' = receivedBytes + n
    /\ IF receivedBytes + n > maxSize
       THEN IF variant = "basic"
            THEN /\ paused' = TRUE
                 /\ UNCHANGED <<status, writableEnded, destroyed>>
            ELSE /\ paused' = TRUE
                 /\ status' = 413
                 /\ writableEnded' = TRUE
                 /\ destroyed' = TRUE
       ELSE UNCHANGED <<paused, status, writableEnded, destroyed>>

\* 'data' on a flowing request
reqData(n) ==
    /\ request = "upload"
    /\ ~paused /\ ~ended /\ ~closed
    /\ uploadOnData(n)
    /\ UNCHANGED <<variant, request, activeStreamsGauge, ipConnections, bytesServedCalls>>
    /\ UNCHANGED <<bytesSent, scheduled, closed, ended>>
    /\ UNCHANGED <<dlVars, echoVars>>
    /\ UNCHANGED <<clientVars, runVars>>

\* the handler of req.on('end'): the totals are reported and the response is sent
uploadOnEnd ==
    /\ bytesServedCalls' = [bytesServedCalls EXCEPT !["upload"] = @ + 1]
    /\ activeStreamsGauge' = [activeStreamsGauge EXCEPT !["upload"] = @ - 1]
    /\ ipConnections' = decrementConnection(ipConnections)
    /\ status' = 200
    /\ writableEnded' = TRUE

\* 'end' on a flowing request: the body was read to its end
reqEnd ==
    /\ request = "upload"
    /\ ~paused /\ ~ended /\ ~closed
    /\ ended' = TRUE
    /\ uploadOnEnd
    /\ UNCHANGED <<variant, request, bytesSent, scheduled, closed, receivedBytes, paused, destroyed>>
    /\ UNCHANGED <<dlVars, echoVars>>
    /\ UNCHANGED <<clientVars, runVars>>

\* the handler of req.on('close') of /upload
uploadOnClose ==
    IF ~writableEnded
    THEN /\ activeStreamsGauge' = [activeStreamsGauge EXCEPT !["upload"] = @ - 1]
         /\ ipConnections' = decrementConnection(ipConnections)
    ELSE UNCHANGED <<activeStreamsGauge, ipConnections>>

\* 'close' of the upload request: the client went away, the connection was destroyed,
\* or the exchange is complete
reqClose ==
    /\ request = "upload"
    /\ ~closed
    /\ closed' = TRUE
    /\ uploadOnClose
    /\ UNCHANGED <<variant, request, bytesServedCalls, bytesSent, scheduled, writableEnded, status>>
    /\ UNCHANGED <<receivedBytes, paused, ended, destroyed>>
    /\ UNCHANGED <<dlVars, echoVars>>
    /\ UNCHANGED <<clientVars, runVars>>

\* ---- the echo service
\* UNCHANGED for the variables of the HTTP handlers
httpVars == <<activeStreamsGauge, ipConnections, bytesServedCalls, bytesSent, scheduled,
              writableEnded, status, closed, receivedBytes, paused, ended, destroyed, dlVars>>

\* wss.on('connection'): a client has opened an echo channel
wsConnection ==
    /\ request = "none"
    /\ request' = "echo"
    /\ wsConn' = "open"
    /\ UNCHANGED <<closeCode, wsEchoCounter, received, sent>>
    /\ UNCHANGED <<variant, httpVars>>
    /\ UNCHANGED <<clientVars, runVars>>

\* ws.send(data) putting the payload on the wire twice
wsSendTwice(data) == sent' = (IF wsConn = "open" THEN sent \o <<data, data>> ELSE sent)

\* ws.send(data): the payload goes out on an open channel; on a closing one it is
\* dropped
wsSend(data) == sent' = (IF wsConn = "open" THEN Append(sent, data) ELSE sent)

\* the handler of ws.on('message') for the payload data. The basic server has no
\* size test: createWebSocketLimiter is defined but installed nowhere.
wsOnMessageServer(data) ==
    IF variant = "secure" /\ data.size > MAX_WS_MESSAGE_SIZE
    THEN /\ wsConn' = "closing"
         /\ closeCode' = (IF wsConn = "open" THEN 1009 ELSE closeCode)
         /\ UNCHANGED <<wsEchoCounter, sent>>
    ELSE /\ wsEchoCounter' = wsEchoCounter + 1
         /\ wsSend(data)
         /\ UNCHANGED <<wsConn, closeCode>>

\* a message of `size` bytes arrives; until the peer has answered the close frame of
\* the server, its frames are still delivered
wsMessage(size) ==
    /\ request = "echo"
    /\ wsConn \in {"open", "closing"}
    /\ Len(received) < MaxMessages
    /\ LET data == [id |-> Len(received) + 1, size |-> size] IN
         /\ received' = Append(received, data)
         /\ wsOnMessageServer(data)
    /\ UNCHANGED <<variant, request, httpVars>>
    /\ UNCHANGED <<clientVars, runVars>>

\* the channel is closed: the peer closed it, or answered the server's close frame
wsClosed ==
    /\ request = "echo"
    /\ wsConn \in {"open", "closing"}
    /\ wsConn' = "closed"
    /\ UNCHANGED <<closeCode, wsEchoCounter, received, sent>>
    /\ UNCHANGED <<variant, request, httpVars>>
    /\ UNCHANGED <<clientVars, runVars>>

ServerNext ==
    \/ \E q \in Queries, timeup \in BOOLEAN, canWrite \in BOOLEAN : download(q, timeup, canWrite)
    \/ \E timeup \in BOOLEAN, canWrite \in BOOLEAN : sendChunkImmediate(timeup, canWrite)
    \/ \E timeup \in BOOLEAN, canWrite \in BOOLEAN : sendChunkDrain(timeup, canWrite)
    \/ resClose
    \/ upload
    \/ \E n \in {1, MaxData} : reqData(n)
    \/ reqEnd
    \/ reqClose
    \/ wsConnection
    \/ \E size \in {1, MAX_WS_MESSAGE_SIZE, MAX_WS_MESSAGE_SIZE + 1} : wsMessage(size)
    \/ wsClosed

\* either server, before its first request
InitServer ==
    /\ ClientInit /\ ServerInit /\ variant \in {"basic", "secure"}
    /\ metrics = NewMetricsCalculator /\ summary = NoSummary

SpecServer == InitServer /\ [][ServerNext]_vars

\* ------------------------------------------------------------- claims
Count(seqn, x) == Cardinality({k \in 1..Len(seqn) : seqn[k] = x})
IsPrefix(a, b) == Len(a) <= Len(b) /\ \A k \in 1..Len(a) : a[k] = b[k]

\* C1: a run in which stop() was called ends with exactly one 'cancelled' event and
\* with neither 'complete' nor 'error'.
C1_StopEmitsCancelled ==
    (stopCalled /\ pc = "done") => terminalLog = <<"cancelled">>

\* C2: once stop() was called during a run, no throughput sample and no RTT sample
\* is appended any more.
C2_NoSampleAfterStop ==
    [][stopCalled => /\ throughputSamples' = throughputSamples
                     /\ rttSamples' = rttSamples]_vars

\* C3: a run that has ended has emitted exactly one of complete, error, cancelled, a
\* run that has not ended has emitted none, and after that event no phaseChange,
\* capabilities, metricsUpdate or second terminal event is emitted.
C3_OneTerminalEvent ==
    /\ [](Len(terminalLog) = (IF pc = "done" THEN 1 ELSE 0))
    /\ [](\A k \in 1..Len(terminalLog) : terminalLog[k] \in Terminals)
    /\ [][terminalLog # <<>> => UNCHANGED <<phaseLog, terminalLog, otherEvents>>]_vars

\* a complete run with echo traffic has ended, and a late response is still to be handled
C3_Witness ==
    /\ pc = "done" /\ terminalLog = <<"complete">>
    /\ rttSamples # <<>>
    /\ parsing # {}

\* C4: the phases entered are a prefix of discovery, warmup, ramp, measure-download,
\* measure-upload, cooldown, and this.phase is the last one entered.
C4_PhaseOrder ==
    /\ IsPrefix(phaseLog, PhaseOrder)
    /\ phase = (IF phaseLog = <<>> THEN "null" ELSE phaseLog[Len(phaseLog)])

\* a run has gone through all six phases with a stream in flight in each stream phase
C4_Witness ==
    /\ phaseLog = PhaseOrder
    /\ pc = "done"
    /\ Len(throughputSamples) = MaxChunks

\* C5: once stop() was called during a run, the run enters no further phase, starts
\* no further stream task and opens no echo channel.
C5_StopIsTerminal ==
    [][stopCalled => /\ phaseLog' = phaseLog
                     /\ launched' = launched
                     /\ wsCreated' = wsCreated]_vars

\* C6: every probe has at most one outcome, one RTT sample or one lost-echo
\* increment, never both and neither twice; a probe still pending has none, and a
\* probe whose outcome is an RTT sample or a loss is no longer pending.
C6_OneOutcomePerEcho ==
    /\ \A seq \in EchoSeqs :
          /\ Count(rttSamples, seq) + (IF seq \in timedOut THEN 1 ELSE 0) <= 1
          /\ seq \in pendingEchoes => Count(rttSamples, seq) = 0 /\ seq \notin timedOut
          /\ seq >= echoSeq => Count(rttSamples, seq) = 0 /\ seq \notin timedOut
    /\ lostEchoes = Cardinality(timedOut)

\* the response of probe 0 was handled while the probe was pending: one RTT sample,
\* its timeout disarmed, nothing counted as lost
C6_Witness ==
    /\ rttSamples = <<0>> /\ sentEchoes = 1
    /\ lostEchoes = 0 /\ timedOut = {}
    /\ echoTimeouts = {} /\ pendingEchoes = {}

\* C7 as claimed: sentEchoes is the number of probes sent.
C7_SentCountsProbesSent ==
    sentEchoes = echoSeq

\* C7 as amended: sentEchoes is the number of probes that were matched or timed out,
\* which is at most the number sent less those still pending, and lostEchoes is the
\* number of probes whose timeout callback found them pending.
C7_SentCountsResolved ==
    /\ sentEchoes = Len(rttSamples) + Cardinality(timedOut)
    /\ sentEchoes <= echoSeq - Cardinality(pendingEchoes)
    /\ lostEchoes = Cardinality(timedOut)
    /\ timedOut \subseteq 0..(echoSeq - 1)

\* a probe is out and pending while nothing has been counted yet
C7_Witness ==
    /\ echoSeq = 1 /\ pendingEchoes = {0}
    /\ sentEchoes = 0

\* C8: once stop() was called during a run, the echo channel is closed, no probe is
\* pending and neither a probe timeout nor the echo interval is armed, for good.
C8_StopClosesEcho ==
    stopCalled => /\ wsState \notin {"connecting", "open"}
                  /\ pendingEchoes = {}
                  /\ echoTimeouts = {}
                  /\ ~echoInterval

\* C9: a download request that passed the rate check never has its gauge decremented
\* or its bytes reported twice, and once it is over (the response was ended or its
\* 'close' was emitted) the gauge was decremented once and the bytes reported once.
C9_DownloadDecrementedOnce ==
    request = "download" =>
        /\ activeStreamsGauge["download"] \in {0, 1}
        /\ bytesServedCalls["download"] <= 1
        /\ (writableEnded \/ closed) =>
               /\ activeStreamsGauge["download"] = 0
               /\ bytesServedCalls["download"] = 1

\* C10: an upload request that passed the rate check never has its gauge decremented
\* twice, and once it is over ('end' or 'close' was emitted) the gauge was
\* decremented once.
C10_UploadDecrementedOnce ==
    request = "upload" =>
        /\ activeStreamsGauge["upload"] \in {0, 1}
        /\ (ended \/ closed) => activeStreamsGauge["upload"] = 0

\* C11: once the bytes an upload has accumulated exceed the ceiling, the sink takes no
\* more input, has answered 413 and has terminated the connection; the request
\* neither completes with a normal result nor stays without a response.
C11_UploadCeilingRejects ==
    (request = "upload" /\ receivedBytes > maxSize) =>
        /\ paused
        /\ status = 413
        /\ destroyed
        /\ ~ended

\* C12: a download never sends more bytes on its stream than the per-stream ceiling
C12_DownloadByteCeiling ==
    request = "download" => bytesSent <= MAX_BYTES_PER_STREAM

\* C13: the duration a download streams for is the requested number of seconds
\* clamped into [1, 120], whatever was requested
C13_SecondsClamped ==
    request = "download" =>
        /\ seconds \in 1..120
        /\ ~parseInt(query).nan => seconds = Max(1, Min(parseInt(query).val, 120))

\* C14: while the response needs a drain the send loop writes nothing: its only
\* continuation waits for 'drain', and a write happens only on a channel that accepts
\* data or in the continuation that the 'drain' notification runs
C14_Backpressure ==
    /\ [](request = "download" =>
            /\ scheduled \in {"none", "immediate", "drain"}
            /\ writableNeedDrain => scheduled = "drain")
    /\ [][bytesSent' # bytesSent =>
            \/ ~writableNeedDrain
            \/ scheduled = "drain" /\ ~closed]_vars

\* a second write was refused on a live connection: the loop waits for 'drain'
C14_Witness ==
    /\ request = "download" /\ ~closed /\ ~writableEnded
    /\ writableNeedDrain /\ scheduled = "drain"
    /\ bytesSent >= 2

\* C15 as claimed: every inbound message is sent back once, unchanged, and counted
C15_EveryMessageEchoed ==
    request = "echo" => sent = received /\ wsEchoCounter = Len(received)

\* C15 as the servers behave: a message that arrives on an open echo channel and, on
\* the secure server, is not larger than MAX_WS_MESSAGE_SIZE is sent back exactly
\* once with the identical payload and adds one to the echo counter; nothing else is
\* ever sent
C15_AcceptedMessageEchoed ==
    /\ [](Len(sent) <= wsEchoCounter /\ wsEchoCounter <= Len(received))
    /\ [][(/\ received' # received
           /\ wsConn = "open"
           /\ variant = "basic" \/ received'[Len(received')].size <= MAX_WS_MESSAGE_SIZE)
          => /\ sent' = Append(sent, received'[Len(received')])
             /\ wsEchoCounter' = wsEchoCounter + 1]_vars
    /\ [][received' = received => sent' = sent /\ wsEchoCounter' = wsEchoCounter]_vars

\* the secure server has echoed a message of exactly MAX_WS_MESSAGE_SIZE bytes
C15_Witness ==
    /\ request = "echo" /\ variant = "secure" /\ wsConn = "open"
    /\ Len(received) = 1 /\ received[1].size = MAX_WS_MESSAGE_SIZE
    /\ sent = received /\ wsEchoCounter = 1

\* C16: a message larger than MAX_WS_MESSAGE_SIZE closes the echo channel with a
\* close code and is neither sent back nor counted, on either server
C16_OversizeClosesChannel ==
    request = "echo" =>
        /\ \A k \in 1..Len(received) :
              received[k].size > MAX_WS_MESSAGE_SIZE =>
                  /\ wsConn \in {"closing", "closed"}
                  /\ closeCode = 1009
                  /\ \A j \in 1..Len(sent) : sent[j] # received[k]
        /\ wsEchoCounter <=
              Cardinality({k \in 1..Len(received) : received[k].size <= MAX_WS_MESSAGE_SIZE})

\* C17 as claimed: after a successful discovery the working concurrency is
\* min(advertised maxConcurrency, 12), also for an advertised 0
C17_ConcurrencyIsMin ==
    (~capabilities.null /\ capabilities.has) =>
        concurrency = Min(capabilities.maxConcurrency, MAX_CONCURRENCY)

\* C17 as the code derives it: an advertised maxConcurrency other than 0 gives
\* min(maxConcurrency, 12); an advertised 0 and a missing value give the default 6
C17_ConcurrencyDerivation ==
    ~capabilities.null =>
        /\ (capabilities.has /\ capabilities.maxConcurrency # 0) =>
              concurrency = Min(capabilities.maxConcurrency, MAX_CONCURRENCY)
        /\ (~capabilities.has \/ capabilities.maxConcurrency = 0) =>
              concurrency = DEFAULT_CONCURRENCY

\* discovery has succeeded with a descriptor that advertises 0
C17_Witness ==
    /\ pc = "connecting"
    /\ capabilities = Descriptor(0)
    /\ concurrency = DEFAULT_CONCURRENCY

\* the stream tasks of the current batch
BatchSize == Cardinality({i \in StreamIds : streams[i].pc # "none"})

\* C18: the batches of ramp, measure-download and measure-upload of a run that is not
\* stopped have between 4 and 12 stream tasks
C18_StreamCountInRange ==
    (~stopCalled /\ pc \in {"ramp", "measure-download", "measure-upload"}) =>
        BatchSize \in 4..12

\* C19: no throughput sample is recorded in warmup, the sample list being empty
\* until ramp has begun; a bucket that a download stream completes in ramp or
\* measure-download is recorded, one completed in warmup is not
C19_WarmupNotRecorded ==
    /\ []((\A k \in 1..Len(phaseLog) : phaseLog[k] # "ramp") => throughputSamples = <<>>)
    /\ [](phase = "warmup" => throughputSamples = <<>>)
    /\ [][\A i \in StreamIds :
            (/\ streams[i].pc = "read" /\ streams'[i].pc = "read"
             /\ streams'[i].totalBytes > streams[i].totalBytes
             /\ streams'[i].bucketBytes = 0)
            => throughputSamples' =
                 (IF pc = "warmup" THEN throughputSamples
                  ELSE Append(throughputSamples, streams[i].bucketBytes + 1))]_vars

\* one chunk was read in warmup and left no sample, the only chunk read in ramp
\* completed a bucket that was recorded
C19_Witness ==
    /\ pc = "ramp" /\ phase = "ramp"
    /\ delivered = 2
    /\ throughputSamples = <<1>>
    /\ \E i \in StreamIds : streams[i].pc = "read" /\ streams[i].totalBytes = 1

\* C20: download and upload never overlap: no state has an upload task together
\* with a running download task, upload tasks exist in measure-upload only, and when
\* the upload tasks start no download task is left but the one whose return
\* completed the join
C20_DownloadBeforeUpload ==
    /\ [](\A i, j \in StreamIds :
            ~(streams[i].pc = "post" /\ streams[j].pc \in {"fetch", "read"}))
    /\ []((\E i \in StreamIds : streams[i].pc = "post") => pc = "measure-upload")
    /\ [][((\E i \in StreamIds : streams'[i].pc = "post")
           /\ ~(\E i \in StreamIds : streams[i].pc = "post"))
          => Cardinality({i \in StreamIds : streams[i].pc \in {"fetch", "read"}}) <= 1]_vars

\* the download tasks of measure-download have run and returned, an upload task
\* awaits its POST
C20_Witness ==
    /\ pc = "measure-upload" /\ abortController = "set"
    /\ throughputSamples # <<>>
    /\ \E i \in StreamIds : streams[i].pc = "post" /\ streams[i].sig

\* the stream tasks of ss that have not returned
Live(ss) == {j \in StreamIds : ss[j].pc \notin {"none", "done"}}
StreamPhases == {"warmup", "ramp", "measure-download", "measure-upload"}

\* C21: the join of a stream batch is best effort: while a stream phase runs no step
\* emits a terminal event, the phase is left only for the phase that follows it and
\* only by the step in which the last running task ends, and a task that ends while
\* siblings still run leaves the siblings and the phase as they are
C21_BestEffortJoin ==
    [][(pc \in StreamPhases) =>
        (/\ terminalLog' = terminalLog
         /\ pc' \in {pc, AfterPhase(pc).pc}
         /\ (pc' # pc => Cardinality(Live(streams)) = 1)
         /\ \A i \in Live(streams) :
               (i \notin Live(streams') /\ Cardinality(Live(streams)) > 1)
               => (pc' = pc /\ phaseLog' = phaseLog
                   /\ \A j \in StreamIds \ {i} : streams'[j] = streams[j]))]_vars

\* every stream task of the run failed (no chunk was delivered, nothing was
\* aborted) and the run went on through all the phases to cooldown
C21_Witness ==
    /\ pc = "cooldown" /\ delivered = 0
    /\ ~aborted /\ ~stopCalled
    /\ terminalLog = <<>>
    /\ launched > 0

\* the run ended with 'error' before any stream was launched or later phase entered
ConnectFailure ==
    /\ pc = "done"
    /\ terminalLog = <<"error">>
    /\ launched = 0
    /\ phaseLog = <<"discovery">>

\* C22: when discovery fails, or the echo socket errors before it opens, or the
\* connect timeout finds the socket not open, the run ends with exactly one 'error':
\* no stream is launched, no later phase is entered, and nothing follows the 'error'
C22_ConnectFailureEndsRun ==
    /\ [](terminalLog # <<>> /\ terminalLog[1] = "error" => ConnectFailure)
    /\ [][(pc = "discovery" /\ pc' # pc /\ capabilities'.null) => ConnectFailure']_vars
    /\ [][(pc = "connecting" /\ ~stopCalled /\ wsState = "failing" /\ wsState' # wsState)
          => ConnectFailure']_vars
    /\ [][(pc = "connecting" /\ connectTimer /\ ~connectTimer' /\ ws = "set"
           /\ wsState # "open") => ConnectFailure']_vars

\* the descriptor arrived, the socket did not open, the run ended with 'error'
C22_Witness ==
    /\ ConnectFailure
    /\ ~capabilities.null
    /\ wsCreated = 1
    /\ ~stopCalled

\* C24: the response for a seq that is not pending changes nothing: handling it
\* leaves the RTT samples, sentEchoes, lostEchoes, the pending set and the armed
\* timeouts as they are and emits no event
C24_LateResponseIgnored ==
    [][\A seq \in EchoSeqs :
          (seq \in parsing /\ seq \notin parsing' /\ seq \notin pendingEchoes)
          => UNCHANGED <<rttSamples, sentEchoes, lostEchoes, pendingEchoes,
                         echoTimeouts, otherEvents, terminalLog>>]_vars

\* the response of a probe arrived after its timeout had counted it as lost
C24_Witness ==
    /\ 0 \in parsing /\ 0 \in timedOut
    /\ 0 \notin pendingEchoes
    /\ lostEchoes = 1 /\ rttSamples = <<>>

StreamCeiling == 4 * MAX_BYTES_PER_STREAM * chunkSize

\* C25: for every stream task, download or upload, the bytes it has recorded as
\* throughput samples never exceed the byte ceiling of a stream
C25_SampledBytesWithinCeiling ==
    \A i \in StreamIds : streams[i].sampledBytes <= StreamCeiling

\* the warm-up durations calculateThroughput is called with
WarmupChoices == {0, DefaultWarmupMs}

\* the samples that survive the warm-up discard: those not older than the earliest
\* timestamp + warmupMs
Surviving(samples, warmupMs) ==
    {k \in 1..Len(samples) :
        \E j \in 1..Len(samples) :
            /\ \A i \in 1..Len(samples) : samples[j].timestamp <= samples[i].timestamp
            /\ samples[k].timestamp >= samples[j].timestamp + warmupMs}

RECURSIVE SumBytes(_, _)
SumBytes(samples, ks) ==
    IF ks = {} THEN 0
    ELSE LET k == CHOOSE k \in ks : TRUE
         IN samples[k].bytes + SumBytes(samples, ks \ {k})

\* the rate of an anchor with timestamp t: the bytes of all surviving samples
\* with timestamp in [t, t + 1000), times 8 / 1e6
ReferenceRate(samples, warmupMs, t) ==
    Mbps(SumBytes(samples, {k \in Surviving(samples, warmupMs) :
                               /\ samples[k].timestamp >= t
                               /\ samples[k].timestamp < t + windowSize}))

ArrivalOrders(samples) ==
    {[i \in 1..Len(samples) |-> samples[f[i]]] :
        f \in {g \in [1..Len(samples) -> 1..Len(samples)] :
                  \A i, j \in 1..Len(samples) : g[i] = g[j] => i = j}}

\* C26: calculateThroughput gives one rate per sample that survives the warm-up
\* discard, the rate of an anchor is the sum of the bytes of all surviving samples
\* in the 1000 ms from the anchor's timestamp, times 8 / 1e6, and the result is the
\* same for every arrival order of the samples
C26_WindowRatesMatchReference ==
    \A warmupMs \in WarmupChoices :
        metrics.throughputSamples # <<>> =>
            LET samples == metrics.throughputSamples
                measured == measuredSamples(samples, warmupMs)
            IN /\ Len(measured) = Cardinality(Surviving(samples, warmupMs))
               /\ \A i \in 1..Len(measured) :
                     windowRates(measured)[i]
                       = ReferenceRate(samples, warmupMs, measured[i].timestamp)
               /\ \A arrival \in ArrivalOrders(samples) :
                     calculateThroughput(arrival, warmupMs)
                       = calculateThroughput(samples, warmupMs)

\* C27: when the one sample that survives the warm-up discard has 125000 bytes,
\* median, p95, p99, average and maximum are all exactly 1.0 Mbps
C27_SingleSampleOneMbps ==
    \A warmupMs \in WarmupChoices :
        LET samples == metrics.throughputSamples
        IN (/\ Cardinality(Surviving(samples, warmupMs)) = 1
            /\ \A k \in Surviving(samples, warmupMs) : samples[k].bytes = 125000)
           => calculateThroughput(samples, warmupMs)
                = [medianMbps |-> DOne, p95Mbps |-> DOne, p99Mbps |-> DOne,
                   avgMbps |-> DOne, maxMbps |-> DOne]

\* a sample of 125000 bytes recorded 3000 ms after the first one is the only one
\* left by the default warm-up, and the average is 1.0
C27_Witness ==
    /\ Len(metrics.throughputSamples) = 2
    /\ metrics.throughputSamples[1].timestamp = 0
    /\ metrics.throughputSamples[2] = [bytes |-> 125000, timestamp |-> 3000]
    /\ calculateThroughput(metrics.throughputSamples, DefaultWarmupMs).avgMbps = DOne

C29_OneDPerLaterSample ==
    Len(metrics.rttSamples) >= 1
    => Len(metrics.jitterSamples) = Len(metrics.rttSamples) - 1

\* 16^n * J for the estimate J after the D values ds, by the recurrence
\* J' = J + (D - J)/16 from J = 0, in integers
RECURSIVE SixteenFoldEstimate(_)
SixteenFoldEstimate(ds) ==
    IF ds = <<>> THEN 0
    ELSE 15 * SixteenFoldEstimate(SubSeq(ds, 1, Len(ds) - 1))
         + ds[Len(ds)] * 16 ^ (Len(ds) - 1)

\* C30: the estimate is the value of the recurrence J' = J + (D - J)/16 from 0 over
\* the D history; after the RTTs 100, 100, 100 it is 0, after 100, 200 it is 6.25;
\* the mean calculateJitter reports is the estimate, and the estimate is never
\* negative
C30_JitterEstimate ==
    /\ DMul(metrics.jitterEstimate, DInt(16 ^ Len(metrics.jitterSamples)))
         = DInt(SixteenFoldEstimate(metrics.jitterSamples))
    /\ metrics.rttSamples = <<100, 100, 100>> => metrics.jitterEstimate = DZero
    /\ metrics.rttSamples = <<100, 200>> => metrics.jitterEstimate = DDivInt(DInt(625), 100)
    /\ calculateJitter(metrics).meanMs = metrics.jitterEstimate
    /\ ~metrics.jitterEstimate.neg

\* two updates have been made, the second after the estimate had left 0
C30_Witness ==
    /\ metrics.rttSamples = <<100, 200, 100>>
    /\ metrics.jitterSamples = <<100, 100>>
    /\ DLess(DInt(12), metrics.jitterEstimate)

\* C31: calculatePacketLoss is lostEchoes / sentEchoes * 100: 0 when no probe is
\* accounted for, the exact percentage where that is a whole number, between the
\* whole percentages around it otherwise, within 0..100, and exactly 20 for 10
\* probes of which 2 timed out
C31_PacketLoss ==
    LET loss == calculatePacketLoss(metrics)
        whole == (100 * metrics.lostEchoes) \div metrics.sentEchoes
    IN /\ metrics.sentEchoes = 0 => loss = DZero
       /\ metrics.sentEchoes > 0 =>
             /\ (100 * metrics.lostEchoes) % metrics.sentEchoes = 0 => loss = DInt(whole)
             /\ (100 * metrics.lostEchoes) % metrics.sentEchoes # 0 =>
                   DLess(DInt(whole), loss) /\ DLess(loss, DInt(whole + 1))
             /\ DLeq(DZero, loss) /\ DLeq(loss, DInt(100))
       /\ (metrics.sentEchoes = 10 /\ metrics.lostEchoes = 2) => loss = DInt(20)

\* 8 probes answered and 2 timed out
C31_Witness ==
    /\ metrics.sentEchoes = 10
    /\ metrics.lostEchoes = 2
    /\ Len(metrics.rttSamples) = 8
    /\ calculatePacketLoss(metrics) = DInt(20)

\* 10 * avg * (100 - 100 * |median - avg| / avg - min(p95 / 10, 50)), without a
\* division: the score before clamping and rounding, times `TenFold`
TenFold(c, warmupMs) ==
    LET avg == calculateThroughput(c.throughputSamples, warmupMs).avgMbps
    IN IF DLess(DZero, avg) THEN DMul(DInt(10), avg) ELSE DInt(10)

TenFoldScore(c, warmupMs) ==
    LET throughput == calculateThroughput(c.throughputSamples, warmupMs)
        avg == throughput.avgMbps
        p95 == calculateLatency(c).p95Ms
        penalty == IF DLess(p95, DInt(500)) THEN p95 ELSE DInt(500)
    IN IF DLess(DZero, avg)
       THEN DSub(DSub(DMul(DInt(1000), avg),
                      DMul(DInt(1000), DAbs(DSub(throughput.medianMbps, avg)))),
                 DMul(penalty, avg))
       ELSE DSub(DInt(1000), penalty)

C34_ZeroWithoutSamples ==
    /\ metrics.throughputSamples = <<>> =>
          \A warmupMs \in WarmupChoices :
              LET throughput == calculateThroughput(metrics.throughputSamples, warmupMs)
              IN /\ throughput.medianMbps = DZero /\ throughput.p95Mbps = DZero
                 /\ throughput.p99Mbps = DZero /\ throughput.avgMbps = DZero
                 /\ throughput.maxMbps = DZero
    /\ metrics.rttSamples = <<>> =>
          LET latency == calculateLatency(metrics)
          IN /\ latency.minMs = DZero /\ latency.avgMs = DZero
             /\ latency.medianMs = DZero /\ latency.p95Ms = DZero
             /\ latency.p99Ms = DZero
    /\ metrics.jitterSamples = <<>> =>
          /\ calculateJitter(metrics).meanMs = DZero
          /\ calculateJitter(metrics).p95Ms = DZero
    /\ metrics.sentEchoes = 0 => calculatePacketLoss(metrics) = DZero

\* throughput samples only: latency, jitter and packet loss are all 0 while the
\* maximum rate is not
C34_Witness ==
    /\ Len(metrics.throughputSamples) = 2
    /\ metrics.rttSamples = <<>>
    /\ metrics.sentEchoes = 0
    /\ calculateLatency(metrics) = NoLatency
    /\ calculatePacketLoss(metrics) = DZero
    /\ calculateThroughput(metrics.throughputSamples, 0).maxMbps # DZero

\* C35: when start() is called while an earlier start() call has not returned, what
\* is left of the earlier run alters nothing of the new one: the step that ends the
\* earlier call leaves the echo channel, the abort controller and its signal, the
\* echo timer, the pending probes and the counters of the new run as they are
C35_EarlierRunLeavesNewRunAlone ==
    [][(earlier # "none" /\ earlier' = "none") =>
          /\ ws' = ws /\ wsState' = wsState
          /\ abortController' = abortController /\ aborted' = aborted
          /\ echoTimer' = echoTimer /\ echoInterval' = echoInterval
          /\ pendingEchoes' = pendingEchoes
          /\ sentEchoes' = sentEchoes /\ lostEchoes' = lostEchoes]_vars

\* the counters of the run as calculatePacketLoss reads them
EchoCounters == [sentEchoes |-> sentEchoes, lostEchoes |-> lostEchoes]

\* C36: sentEchoes is the number of RTT samples plus lostEchoes and lostEchoes lies
\* in 0..sentEchoes, so the packet loss lies in 0..100; a pending probe is counted
\* in neither, and a cleanup that drops pending probes changes no counter and no
\* sample
C36_EchoAccounting ==
    /\ [](/\ sentEchoes = Len(rttSamples) + lostEchoes
          /\ 0 <= lostEchoes /\ lostEchoes <= sentEchoes
          /\ DLeq(DZero, calculatePacketLoss(EchoCounters))
          /\ DLeq(calculatePacketLoss(EchoCounters), DInt(100))
          /\ sentEchoes + Cardinality(pendingEchoes) <= echoSeq
          /\ \A seq \in pendingEchoes : Count(rttSamples, seq) = 0 /\ seq \notin timedOut)
    /\ [][(pendingEchoes # {} /\ pendingEchoes' = {} /\ ws = "set" /\ ws' = "null") =>
             UNCHANGED <<rttSamples, sentEchoes, lostEchoes, timedOut>>]_vars

\* a probe was sent and was pending when the run was cleaned up: its timer is
\* gone and it is counted neither as sent nor as lost
C36_Witness ==
    /\ echoSeq = 1 /\ pendingEchoes = {} /\ echoTimeouts = {} /\ ws = "null"
    /\ rttSamples = <<>> /\ lostEchoes = 0 /\ sentEchoes = 0
    /\ calculatePacketLoss(EchoCounters) = DZero

\* C37: the stream tasks of the warmup batch are never more than the working
\* concurrency, and so never more than the maxConcurrency the server advertised
C37_WarmupWithinConcurrency ==
    pc = "warmup" =>
        /\ BatchSize <= concurrency
        /\ capabilities.has => BatchSize <= capabilities.maxConcurrency

RECURSIVE SumOf(_)
SumOf(seqn) == IF seqn = <<>> THEN 0 ELSE seqn[1] + SumOf(Tail(seqn))

\* the phases whose download streams record samples
RecordedPhases == {"ramp", "measure-download"}

\* C38: in a download stream of ramp or measure-download every byte read is in a
\* sample the stream recorded or in its unfinished bucket; when the stream ends
\* normally the unfinished bucket, if it has bytes, becomes one more sample, so the
\* samples of the stream add up to the bytes it read; when it ends by abort or by
\* an error the unfinished bucket is recorded in no sample
C38_ByteConservation ==
    /\ [](\A i \in StreamIds :
            (pc \in RecordedPhases /\ streams[i].pc = "read") =>
                streams[i].totalBytes = streams[i].sampledBytes + streams[i].bucketBytes)
    /\ [][\A i \in StreamIds :
            (pc \in RecordedPhases /\ dlDone(i)) =>
                /\ SumOf(throughputSamples') - SumOf(throughputSamples)
                     = streams[i].totalBytes - streams[i].sampledBytes
                /\ Len(throughputSamples') - Len(throughputSamples)
                     = (IF streams[i].totalBytes > streams[i].sampledBytes THEN 1 ELSE 0)]_vars
    /\ [][\A i \in StreamIds :
            (pc \in RecordedPhases /\ (streamFailed(i) \/ streamAborted(i))) =>
                throughputSamples' = throughputSamples]_vars

\* the one stream of ramp read two chunks and ended normally: the first chunk went
\* into a periodic sample, the second into the sample of the final bucket
C38_Witness ==
    /\ pc = "measure-download"
    /\ throughputSamples = <<1, 1>>
    /\ delivered = 2
    /\ otherEvents = 2
    /\ rttSamples = <<>> /\ lostEchoes = 0
    /\ ~aborted /\ ~stopCalled

\* warm-up offsets above 0
PositiveWarmups == {1, 1000, DefaultWarmupMs}

\* the earliest timestamp of the samples
Earliest(samples) ==
    CHOOSE t \in {samples[k].timestamp : k \in 1..Len(samples)} :
        \A k \in 1..Len(samples) : t <= samples[k].timestamp

\* C39: with warmupMs > 0 calculateThroughput measures no sample with the earliest
\* timestamp, so fewer samples than were recorded; it returns zeros for all five
\* statistics when every sample is less than warmupMs after the earliest one, and
\* only then; samples that span less than the default 3000 ms give zeros
C39_WarmupDiscardsEarliest ==
    \A warmupMs \in PositiveWarmups :
        LET samples == metrics.throughputSamples
            measured == measuredSamples(samples, warmupMs)
            late == {k \in 1..Len(samples) :
                        samples[k].timestamp >= Earliest(samples) + warmupMs}
        IN samples # <<>> =>
            /\ Len(measured) < Len(samples)
            /\ \A k \in 1..Len(measured) : measured[k].timestamp > Earliest(samples)
            /\ Len(measured) = Cardinality(late)
            /\ late = {} <=> calculateThroughput(samples, warmupMs) = NoThroughput
            /\ (\A k \in 1..Len(samples) :
                   samples[k].timestamp < Earliest(samples) + DefaultWarmupMs)
                => calculateThroughput(samples, DefaultWarmupMs) = NoThroughput

\* three samples within one second: the default warm-up leaves none of them and
\* the summary is all zeros, although their rate is not 0
C39_Witness ==
    /\ Len(metrics.throughputSamples) = 3
    /\ \A k \in 1..3 : metrics.throughputSamples[k].timestamp \in {3000, 3999, 4000}
    /\ calculateThroughput(metrics.throughputSamples, DefaultWarmupMs) = NoThroughput
    /\ calculateThroughput(metrics.throughputSamples, 0).maxMbps # DZero

\* C40: in a run that is not stopped, whose discovery succeeds, whose echo channel
\* opens and whose downloads end and uploads resolve, start() once called emits
\* 'complete' in the end, and from the terminal event on no echo interval, no
\* probe timer, no pending probe and no open echo channel are left
C40_RunCompletes ==
    /\ (pc # "idle") ~> (pc = "done" /\ terminalLog = <<"complete">>)
    /\ [](pc = "done" =>
            /\ terminalLog = <<"complete">>
            /\ echoTimer = "null" /\ ~echoInterval
            /\ echoTimeouts = {} /\ pendingEchoes = {}
            /\ ws = "null" /\ wsState \notin {"connecting", "open"})
    /\ (pc = "done") ~> (wsState = "closed")

\* the run is complete after samples were recorded and a probe was sent, and the
\* socket is closed
C40_Witness ==
    /\ pc = "done" /\ terminalLog = <<"complete">>
    /\ throughputSamples # <<>>
    /\ echoSeq > 0
    /\ wsState = "closed"
    /\ ~echoInterval /\ echoTimeouts = {} /\ pendingEchoes = {}
====
